---- MODULE Spec2Model ----
(***************************************************************************)
(* Request pipeline of the datadog-tour API server: the Echo middleware    *)
(* chain built by router.Setup, the panic-recovery middleware, the route   *)
(* handlers, the user use case, the tracing decorators and the MySQL and   *)
(* Redis repositories.                                                     *)
(*                                                                         *)
(* A request descends through the middleware chain one frame per step,     *)
(* the route handler runs as one step (handler, use case and repositories  *)
(* are plain nested calls), and the frames are then left one per step,     *)
(* either by normal return or by a panic unwinding through their defers.   *)
(* What a Go function does to spans, logs and the response is written as   *)
(* the list of events it performs, in program order; Apply plays the list  *)
(* on the request's trace.                                                 *)
(***************************************************************************)
EXTENDS Naturals, Integers, Sequences, FiniteSets, TLC

\* ---------------------------------------------------------------- bounds
MaxUsers == 2          \* rows the users table may hold
MaxClock == 1          \* largest value of the wall clock
MaxRows == 101         \* rows of the largest users table given to the repository alone
MaxCalls == 2          \* repository calls made in a row on one table

\* ------------------------------------------------------------- constants
StatusOK == 200
StatusCreated == 201
StatusBadRequest == 400
StatusNotFound == 404
StatusInternalServerError == 500

ErrorTypeValidation == "https://datadog-tour.example.com/errors/validation"
ErrorTypeNotFound == "https://datadog-tour.example.com/errors/not-found"
ErrorTypeInternal == "https://datadog-tour.example.com/errors/internal"

Names == {"Bob"}
Emails == {"alice@example.com", "bob@example.com"}
IdParams == {"1", "2", "abc"}

NoErr == "nil"

VARIABLES
    cfg,        \* what main/Setup wired: logger, locator, code variant, user repo decorator
    appLogger,  \* configuration of the process-wide logger
    store,      \* rows of the users table, in insertion order
    cache,      \* Redis: key -> cached value
    now,        \* wall clock
    phase,      \* "idle" | "down" | "up" | "panic" | "done"
    req,        \* the request being served
    nextMw,     \* index in Chain of the next middleware to enter
    stack,      \* frames of the middlewares entered and not yet left (top last)
    reqCtx,     \* c.Request().Context(): active span, logger, locator
    spans,      \* spans opened while serving the request
    logs,       \* log entries emitted while serving the request
    resp,       \* response writes of the request
    calls,      \* calls made through a tracing decorator while serving the request
    result,     \* error value (or panic value) travelling up the chain
    rec,        \* bookkeeping of the recovery middleware frame
    traceOp,    \* outcome of the last TraceOperation call
    warm,       \* per id: what the last use-case call that populates the cache
                \* returned, while the TTL window it opened is still open
    sharedWrites, \* fields of process-wide objects assigned since startup
    ctxs,       \* the context values built with the carrier's setters
    procs       \* use-case calls in flight at the same time, one per goroutine

vars == <<cfg, appLogger, store, cache, now, phase, req, nextMw, stack, reqCtx,
          spans, logs, resp, calls, result, rec, traceOp, warm,
          sharedWrites, ctxs, procs>>

\* ------------------------------------------------- values and conversions
Digits == <<"0", "1", "2", "3", "4", "5", "6", "7", "8", "9">>

\* strconv.FormatUint(n, 10)
RECURSIVE FormatUint(_)
FormatUint(n) ==
    IF n < 10 THEN Digits[n + 1]
    ELSE FormatUint(n \div 10) \o Digits[(n % 10) + 1]

\* faulty variant: a parameter that is not a number is read as 0
Atoi_Lenient(s) ==
    IF \E n \in 0..9 : Digits[n + 1] = s
    THEN [ok |-> TRUE, n |-> CHOOSE n \in 0..9 : Digits[n + 1] = s]
    ELSE [ok |-> TRUE, n |-> 0]

\* strconv.Atoi on the path parameter: [ok, n]
Atoi(s) ==
    IF \E n \in 0..9 : Digits[n + 1] = s
    THEN [ok |-> TRUE, n |-> CHOOSE n \in 0..9 : Digits[n + 1] = s]
    ELSE [ok |-> FALSE, n |-> 0]

\* faulty variant: the key is built from the id the user has before Create
CacheKey_Unassigned(id) == "user:" \o FormatUint(0)

\* fmt.Sprintf("user:%d", id)
CacheKey(id) == "user:" \o FormatUint(id)

\* entities.User
User(id, name, email, createdAt) ==
    [ID |-> id, Name |-> name, Email |-> email, CreatedAt |-> createdAt]

NoUser == User(0, "", "", 0)

\* A cached value is a string: a JSON document, the empty string or bytes that
\* are not JSON.  json.Marshal writes the object with the lower-case keys of
\* the struct tags; json.Unmarshal reads it back or fails.
Marshal(u) ==
    [kind |-> "json", id |-> u.ID, name |-> u.Name, email |-> u.Email,
     created_at |-> u.CreatedAt]

EmptyString == [kind |-> "empty", id |-> 0, name |-> "", email |-> "", created_at |-> 0]
Garbage == [kind |-> "garbage", id |-> 0, name |-> "", email |-> "", created_at |-> 0]

\* faulty variant: bytes that are not JSON are read as the zero user
Unmarshal_Lenient(d) ==
    IF d.kind \in {"json", "garbage"}
    THEN [ok |-> TRUE, user |-> User(d.id, d.name, d.email, d.created_at)]
    ELSE [ok |-> FALSE, user |-> NoUser]

Unmarshal(d) ==
    IF d.kind = "json"
    THEN [ok |-> TRUE, user |-> User(d.id, d.name, d.email, d.created_at)]
    ELSE [ok |-> FALSE, user |-> NoUser]

\* fmt.Errorf("<prefix>: %w", err)
Wrap(prefix, err) == prefix \o ": " \o err

\* ------------------------------------------------------------------ events
\* What a function does to the trace of the request, in program order.
EvStart(owner, name, parent) ==
    [t |-> "start", o |-> owner, k |-> name, v |-> parent, n |-> 0, x |-> <<>>]
EvTag(owner, key, value) ==
    [t |-> "tag", o |-> owner, k |-> key, v |-> value, n |-> 0, x |-> <<>>]
EvFinish(owner) ==
    [t |-> "finish", o |-> owner, k |-> "", v |-> "", n |-> 0, x |-> <<>>]
\* a log line: level, layer, the span of the ctx it is given, its attributes
EvLog(level, layer, ctxSpan, logger, attrs) ==
    [t |-> "log", o |-> ctxSpan, k |-> level, v |-> layer, n |-> 0,
     x |-> <<logger>> \o attrs]
\* a response write: who writes, the status, the headers the writer sets itself,
\* the body, and whether the write reached the client
EvRespond(by, status, headers, body, written) ==
    [t |-> "respond", o |-> by, k |-> written, v |-> headers, n |-> status, x |-> body]

\* a call through a decorator: what the wrapped repository returned and what
\* the decorator returned to its caller
EvCall(op, wrapped, got) ==
    [t |-> "call", o |-> op, k |-> "", v |-> "", n |-> 0, x |-> <<wrapped, got>>]

\* the index (span id) of the span an owner opened; 0 when there is none
SpanOf(ss, owner) ==
    IF \E i \in 1..Len(ss) : ss[i].owner = owner
    THEN CHOOSE i \in 1..Len(ss) : ss[i].owner = owner
    ELSE 0

\* tracer.StartSpanFromContext: a child of the span in ctx, or a new trace
StartSpan(ss, owner, name, parent) ==
    LET p == SpanOf(ss, parent)
        id == Len(ss) + 1
    IN Append(ss, [owner |-> owner, name |-> name, id |-> id, parent |-> p,
                   trace |-> IF p = 0 THEN id ELSE ss[p].trace,
                   fin |-> 0, tags |-> {}, late |-> {}])

\* span.SetTag: a finished span takes no more tags; the late call is recorded
SetTag(ss, owner, key, value) ==
    LET i == SpanOf(ss, owner) IN
    IF i = 0 THEN ss
    ELSE IF ss[i].fin > 0
         THEN [ss EXCEPT ![i].late = @ \cup {key}]
         ELSE [ss EXCEPT ![i].tags = {p \in @ : p[1] # key} \cup {<<key, value>>}]

\* span.Finish
FinishSpan(ss, owner) ==
    LET i == SpanOf(ss, owner) IN
    IF i = 0 THEN ss ELSE [ss EXCEPT ![i].fin = @ + 1]

\* the dd.trace_id / dd.span_id attributes read from SpanFromContext(ctx)
TraceAttrs(ss, ctxSpan) ==
    LET i == SpanOf(ss, ctxSpan) IN
    IF i = 0 THEN <<>>
    ELSE << <<"dd.trace_id", FormatUint(ss[i].trace)>>,
            <<"dd.span_id", FormatUint(ss[i].id)>> >>

RECURSIVE DropKeys(_, _)
DropKeys(attrs, keys) ==
    IF attrs = <<>> THEN <<>>
    ELSE IF attrs[1][1] \in keys THEN DropKeys(Tail(attrs), keys)
         ELSE <<attrs[1]>> \o DropKeys(Tail(attrs), keys)

HasKey(attrs, key) == \E i \in 1..Len(attrs) : attrs[i][1] = key
ValueOf(attrs, key) == attrs[CHOOSE i \in 1..Len(attrs) : attrs[i][1] = key][2]

\* prepareLogAttrs (slog): the ids of the ctx span first, then the layer, then
\* every caller-supplied field appended after them (slog keeps duplicates)
prepareLogAttrs(ss, ctxSpan, layer, fields) ==
    TraceAttrs(ss, ctxSpan) \o << <<"layer", layer>> >> \o fields

\* prepareLogFields (logrus): the fields are a map; the ids of the ctx span
\* and the layer overwrite whatever the caller stored under the same keys
prepareLogFields(ss, ctxSpan, layer, fields) ==
    LET ids == TraceAttrs(ss, ctxSpan) IN
    DropKeys(fields, {"layer"} \cup {ids[i][1] : i \in 1..Len(ids)})
        \o ids \o << <<"layer", layer>> >>

\* The state an event list is played on: spans, logs, response writes and the
\* calls made through a tracing decorator.
Trace(ss, ls, rs, cs) == [spans |-> ss, logs |-> ls, resp |-> rs, calls |-> cs]

\* The header map of the response at the moment it is committed: what Echo's
\* CORS handler added on the way in (Vary: Origin, for a request that is not a
\* preflight and carries no Origin header), then what the writer set itself.
ResponseHeaders(ss, set) ==
    (IF SpanOf(ss, "EchoCORSMiddleware") # 0 THEN << <<"Vary", "Origin">> >> ELSE <<>>)
    \o set

Apply1(w, e) ==
    CASE e.t = "start" -> [w EXCEPT !.spans = StartSpan(@, e.o, e.k, e.v)]
      [] e.t = "tag" -> [w EXCEPT !.spans = SetTag(@, e.o, e.k, e.v)]
      [] e.t = "finish" -> [w EXCEPT !.spans = FinishSpan(@, e.o)]
      [] e.t = "log" ->
            [w EXCEPT !.logs = Append(@,
                [level |-> e.k, layer |-> e.v, logger |-> e.x[1],
                 attrs |-> IF cfg.ver = 1
                           THEN prepareLogFields(w.spans, e.o, e.v, Tail(e.x))
                           ELSE prepareLogAttrs(w.spans, e.o, e.v, Tail(e.x))])]
      [] e.t = "respond" ->
            [w EXCEPT !.resp = Append(@, [by |-> e.o, status |-> e.n, body |-> e.x,
                                         headers |-> ResponseHeaders(w.spans, e.v),
                                         written |-> e.k])]
      [] e.t = "call" ->
            [w EXCEPT !.calls = Append(@, [op |-> e.o, wrapped |-> e.x[1], got |-> e.x[2]])]

\* the events in order: the first half, then the second half on its outcome
RECURSIVE Apply(_, _)
Apply(w, evs) ==
    LET Then(a, rest) == IF Len(a.spans) >= 0 THEN Apply(a, rest) ELSE a IN
    IF evs = <<>> THEN w
    ELSE IF Len(evs) = 1 THEN Apply1(w, evs[1])
    ELSE Then(Apply(w, SubSeq(evs, 1, Len(evs) \div 2)),
              SubSeq(evs, Len(evs) \div 2 + 1, Len(evs)))

\* ----------------------------------------------------------------- logging
\* logging.LogWithTrace: one INFO entry carrying the ids of the ctx span
LogWithTrace(ctxSpan, logger, layer, msg, fields) ==
    << EvLog("info", layer, ctxSpan, logger, << <<"msg", msg>> >> \o fields) >>

\* logging.LogErrorWithTrace: error.notify=true on the entry and on the ctx
\* span, error tags on the ctx span, one ERROR entry
LogErrorWithTrace(ctxSpan, logger, layer, msg, err, fields) ==
    LET fs == DropKeys(fields, {"error.notify", "error"})
                \o << <<"error.notify", "true">>, <<"error", err>> >>
        tags == IF ctxSpan = "" THEN <<>>
                ELSE << EvTag(ctxSpan, "error", "true"),
                        EvTag(ctxSpan, "error.msg", err),
                        EvTag(ctxSpan, "error.notify", "true"),
                        EvTag(ctxSpan, "error.type",
                              IF HasKey(fields, "error.type")
                              THEN ValueOf(fields, "error.type")
                              ELSE "system_error") >>
    IN tags \o << EvLog("error", layer, ctxSpan, logger, << <<"msg", msg>> >> \o fs) >>

\* logging.LogSQL: the statement, INFO on success and ERROR on failure
LogSQL(ctxSpan, logger, err) ==
    << EvLog(IF err = NoErr THEN "info" ELSE "error", "sql", ctxSpan, logger,
             << <<"component", "sql">> >>
             \o (IF err = NoErr THEN <<>> ELSE << <<"error", err>> >>)) >>

\* ------------------------------------------------------------ the database
\* Inputs of one request that the program does not control: whether MySQL
\* and Redis answer, whether the response can be written, how MySQL orders
\* rows with equal created_at.
Faults ==
    [db : {"ok", "down"}, cget : {"ok", "down"}, cset : {"ok", "down"},
     write : {"ok", "fail"}, tie : {"asc", "desc"}]

NoFault == [db |-> "ok", cget |-> "ok", cset |-> "ok", write |-> "ok", tie |-> "asc"]

\* the faults that can show in an operation touching only the given resources
FaultsOn(resources) ==
    {f \in Faults : \A k \in DOMAIN NoFault \ resources : f[k] = NoFault[k]}

DbDown == "connection refused"
RedisDown == "dial tcp: connection refused"

FindAllLimit == 100

RowOf(st, id) == st[CHOOSE i \in 1..Len(st) : st[i].ID = id]
HasRow(st, id) == \E i \in 1..Len(st) : st[i].ID = id
HasEmail(st, email) == \E i \in 1..Len(st) : st[i].Email = email

\* ORDER BY created_at DESC.  The rows of the table are kept in insertion
\* order, which is the order of their ids.  Rows of equal created_at come out
\* in the order MySQL happens to produce: by id ascending or descending.
Reverse(rows) == [i \in 1..Len(rows) |-> rows[Len(rows) + 1 - i]]

CreatedAtIs(rows, t, tie) ==
    LET At(r) == r.CreatedAt = t IN
    IF tie = "asc" THEN SelectSeq(rows, At) ELSE Reverse(SelectSeq(rows, At))

RECURSIVE FromNewest(_, _, _)
FromNewest(rows, t, tie) ==
    IF t < 0 THEN <<>>
    ELSE CreatedAtIs(rows, t, tie) \o FromNewest(rows, t - 1, tie)

OrderByCreatedAtDesc(rows, tie) == FromNewest(rows, MaxClock, tie)

\* faulty variant: the query has no LIMIT
Limit_None(rows, n) == rows

Limit(rows, n) == IF Len(rows) <= n THEN rows ELSE SubSeq(rows, 1, n)

\* ------------------------------------------- database.UserRepository (MySQL)
\* Create: INSERT; the id is the auto-increment value; email is UNIQUE
UserRepository_Create(st, user, f, parent) ==
    LET me == "UserRepository.Create"
        pre == << EvStart(me, "mysql.create_user", parent) >>
                 \o LogWithTrace(me, "app", "repository", "SQL: INSERT", <<>>)
        dberr == IF f.db = "down" THEN DbDown
                 ELSE IF HasEmail(st, user.Email) THEN "Duplicate entry"
                 ELSE NoErr
        id == Len(st) + 1
    IN IF dberr # NoErr
       THEN [ev |-> pre \o LogErrorWithTrace(me, "app", "repository", "SQL Error",
                                           dberr, <<>>)
                        \o << EvFinish(me) >>,
             err |-> Wrap("failed to insert user", dberr),
             user |-> user, store |-> st]
       ELSE [ev |-> pre \o LogWithTrace(me, "app", "repository", "SQL result: created",
                                      <<>>)
                        \o << EvFinish(me) >>,
             err |-> NoErr,
             user |-> [user EXCEPT !.ID = id],
             store |-> Append(st, [user EXCEPT !.ID = id])]

\* faulty variant: an absent row is returned as the zero user without error
FindByID_ZeroUserWhenAbsent(st, id, f, parent) ==
    LET me == "UserRepository.FindByID"
        pre == << EvStart(me, "mysql.find_user_by_id", parent) >>
                 \o LogWithTrace(me, "app", "repository", "SQL: SELECT by id", <<>>)
    IN IF f.db = "down"
       THEN [ev |-> pre \o LogErrorWithTrace(me, "app", "repository", "SQL Error",
                                           DbDown, <<>>)
                        \o << EvFinish(me) >>,
             user |-> <<>>, err |-> Wrap("failed to query user", DbDown)]
       ELSE [ev |-> pre \o LogWithTrace(me, "app", "repository", "SQL result: Found user",
                                      <<>>)
                        \o << EvFinish(me) >>,
             user |-> IF HasRow(st, id) THEN <<RowOf(st, id)>> ELSE <<NoUser>>,
             err |-> NoErr]

\* FindByID: SELECT ... WHERE id = ?
UserRepository_FindByID(st, id, f, parent) ==
    LET me == "UserRepository.FindByID"
        pre == << EvStart(me, "mysql.find_user_by_id", parent) >>
                 \o LogWithTrace(me, "app", "repository", "SQL: SELECT by id", <<>>)
    IN IF f.db = "ok" /\ ~HasRow(st, id)
       THEN [ev |-> pre \o LogWithTrace(me, "app", "repository",
                                      "SQL result: User not found", <<>>)
                        \o << EvFinish(me) >>,
             user |-> <<>>, err |-> "user not found"]
       ELSE IF f.db = "down"
       THEN [ev |-> pre \o LogErrorWithTrace(me, "app", "repository", "SQL Error",
                                           DbDown, <<>>)
                        \o << EvFinish(me) >>,
             user |-> <<>>, err |-> Wrap("failed to query user", DbDown)]
       ELSE [ev |-> pre \o LogWithTrace(me, "app", "repository", "SQL result: Found user",
                                      <<>>)
                        \o << EvFinish(me) >>,
             user |-> <<RowOf(st, id)>>, err |-> NoErr]

\* FindAll: SELECT ... ORDER BY created_at DESC LIMIT 100
UserRepository_FindAll(st, f, parent) ==
    LET me == "UserRepository.FindAll"
        pre == << EvStart(me, "mysql.find_all_users", parent) >>
                 \o LogWithTrace(me, "app", "repository", "SQL: SELECT all", <<>>)
    IN IF f.db = "down"
       THEN [ev |-> pre \o LogErrorWithTrace(me, "app", "repository", "SQL Error",
                                           DbDown, <<>>)
                        \o << EvFinish(me) >>,
             users |-> <<>>, err |-> Wrap("failed to query users", DbDown)]
       ELSE [ev |-> pre \o LogWithTrace(me, "app", "repository", "SQL result: Retrieved",
                                      <<>>)
                        \o << EvFinish(me) >>,
             users |-> Limit(OrderByCreatedAtDesc(st, f.tie), FindAllLimit),
             err |-> NoErr]

NoPanic == [kind |-> "none", msg |-> ""]
DeliberatePanic ==
    [kind |-> "string",
     msg |-> "Deliberate panic in repository layer for testing recovery middleware"]
NilDereference ==
    [kind |-> "runtime.Error",
     msg |-> "runtime error: invalid memory address or nil pointer dereference"]

\* faulty variant: Finish at the end of the function instead of deferred
TestPanic_FinishNotDeferred(f, parent) ==
    LET me == "UserRepository.TestPanic"
        pre == << EvStart(me, "mysql.test_panic", parent) >>
                 \o LogSQL(me, "app", NoErr)
    IN IF f.db = "down"
       THEN [ev |-> pre \o << EvFinish(me) >>,
             err |-> Wrap("failed to count users", DbDown), panic |-> NoPanic]
       ELSE [ev |-> pre, err |-> NoErr, panic |-> DeliberatePanic]

\* TestPanic: counts the users, then panics; the deferred Finish still runs
UserRepository_TestPanic(f, parent) ==
    LET me == "UserRepository.TestPanic"
        pre == << EvStart(me, "mysql.test_panic", parent) >>
                 \o LogSQL(me, "app", NoErr)
    IN IF f.db = "down"
       THEN [ev |-> pre \o << EvFinish(me) >>,
             err |-> Wrap("failed to count users", DbDown), panic |-> NoPanic]
       ELSE [ev |-> pre \o << EvFinish(me) >>,
             err |-> NoErr, panic |-> DeliberatePanic]

\* ---------------------------------------------- redis.CacheRepository (Redis)
\* faulty variant: Set reports success without storing the value
Set_NotStored(ca, key, value, f) ==
    IF f.cset = "down"
    THEN [err |-> Wrap("failed to set cache", RedisDown), cache |-> ca]
    ELSE [err |-> NoErr, cache |-> ca]

CacheRepository_Set(ca, key, value, f) ==
    IF f.cset = "down"
    THEN [err |-> Wrap("failed to set cache", RedisDown), cache |-> ca]
    ELSE [err |-> NoErr,
          cache |-> [k \in DOMAIN ca \cup {key} |-> IF k = key THEN value ELSE ca[k]]]

CacheRepository_Get(ca, key, f) ==
    IF f.cget = "ok" /\ key \notin DOMAIN ca
    THEN [value |-> EmptyString, err |-> "key not found"]
    ELSE IF f.cget = "down"
    THEN [value |-> EmptyString, err |-> Wrap("failed to get cache", RedisDown)]
    ELSE [value |-> ca[key], err |-> NoErr]

CacheRepository_Delete(ca, key, f) ==
    IF f.cset = "down"
    THEN [err |-> Wrap("failed to delete cache", RedisDown), cache |-> ca]
    ELSE [err |-> NoErr, cache |-> [k \in DOMAIN ca \ {key} |-> ca[k]]]

\* ------------------------------------------- tracing.CacheRepositoryTracer
CacheTTLSeconds == "300"

\* Each decorator opens a span, tags it, calls the wrapped repository, tags
\* the outcome and returns; the deferred Finish runs last.  The call event
\* records what the wrapped repository returned and what the decorator returns.
\* faulty variant: a failed Set leaves no error tag on the span
Set_NoErrorTag(ca, key, value, f, parent) ==
    LET me == "CacheRepositoryTracer.Set"
        pre == << EvStart(me, "redis.set", parent),
                  EvTag(me, "db.type", "redis"),
                  EvTag(me, "db.operation", "SET"),
                  EvTag(me, "cache.key", key),
                  EvTag(me, "cache.ttl", CacheTTLSeconds) >>
        Tags(r) == IF r.err # NoErr
                   THEN << EvTag(me, "cache.success", "false") >>
                   ELSE << EvTag(me, "cache.success", "true") >>
        Wrapped(r) ==
            [ev |-> pre \o Tags(r)
                        \o << EvCall(me, [err |-> r.err], [err |-> r.err]), EvFinish(me) >>,
             err |-> r.err, cache |-> r.cache]
    IN Wrapped(CacheRepository_Set(ca, key, value, f))

CacheRepositoryTracer_Set(ca, key, value, f, parent) ==
    LET me == "CacheRepositoryTracer.Set"
        pre == << EvStart(me, "redis.set", parent),
                  EvTag(me, "db.type", "redis"),
                  EvTag(me, "db.operation", "SET"),
                  EvTag(me, "cache.key", key),
                  EvTag(me, "cache.ttl", CacheTTLSeconds) >>
        Tags(r) == IF r.err # NoErr
                   THEN << EvTag(me, "error", "true"),
                           EvTag(me, "error.msg", r.err),
                           EvTag(me, "cache.success", "false") >>
                   ELSE << EvTag(me, "cache.success", "true") >>
        Out(r) == IF r.err # NoErr THEN [err |-> r.err] ELSE [err |-> NoErr]
        Wrapped(r) ==
            [ev |-> pre \o Tags(r) \o << EvCall(me, [err |-> r.err], Out(r)), EvFinish(me) >>,
             err |-> Out(r).err, cache |-> r.cache]
    IN Wrapped(CacheRepository_Set(ca, key, value, f))

\* faulty variant: a failed Get is returned as an empty value without error
Get_ErrorDropped(ca, key, f, parent) ==
    LET me == "CacheRepositoryTracer.Get"
        pre == << EvStart(me, "redis.get", parent),
                  EvTag(me, "db.type", "redis"),
                  EvTag(me, "db.operation", "GET"),
                  EvTag(me, "cache.key", key) >>
        Tags(r) == IF r.err # NoErr
                   THEN << EvTag(me, "cache.hit", "false"),
                           EvTag(me, "cache.success", "true") >>
                   ELSE << EvTag(me, "cache.hit", "true"),
                           EvTag(me, "cache.success", "true") >>
        Out(r) == IF r.err # NoErr THEN [value |-> EmptyString, err |-> NoErr]
                  ELSE [value |-> r.value, err |-> NoErr]
        Wrapped(r) ==
            [ev |-> pre \o Tags(r)
                        \o << EvCall(me, [value |-> r.value, err |-> r.err], Out(r)),
                              EvFinish(me) >>,
             value |-> Out(r).value, err |-> Out(r).err]
    IN Wrapped(CacheRepository_Get(ca, key, f))

CacheRepositoryTracer_Get(ca, key, f, parent) ==
    LET me == "CacheRepositoryTracer.Get"
        pre == << EvStart(me, "redis.get", parent),
                  EvTag(me, "db.type", "redis"),
                  EvTag(me, "db.operation", "GET"),
                  EvTag(me, "cache.key", key) >>
        \* "Cache miss is not an error"
        Tags(r) == IF r.err # NoErr
                   THEN << EvTag(me, "cache.hit", "false"),
                           EvTag(me, "cache.success", "true") >>
                   ELSE << EvTag(me, "cache.hit", "true"),
                           EvTag(me, "cache.success", "true") >>
        Out(r) == IF r.err # NoErr THEN [value |-> EmptyString, err |-> r.err]
                  ELSE [value |-> r.value, err |-> NoErr]
        Wrapped(r) ==
            [ev |-> pre \o Tags(r)
                        \o << EvCall(me, [value |-> r.value, err |-> r.err], Out(r)),
                              EvFinish(me) >>,
             value |-> Out(r).value, err |-> Out(r).err]
    IN Wrapped(CacheRepository_Get(ca, key, f))

CacheRepositoryTracer_Delete(ca, key, f, parent) ==
    LET me == "CacheRepositoryTracer.Delete"
        pre == << EvStart(me, "redis.delete", parent),
                  EvTag(me, "db.type", "redis"),
                  EvTag(me, "db.operation", "DELETE"),
                  EvTag(me, "cache.key", key) >>
        Tags(r) == IF r.err # NoErr
                   THEN << EvTag(me, "error", "true"),
                           EvTag(me, "error.msg", r.err),
                           EvTag(me, "cache.success", "false") >>
                   ELSE << EvTag(me, "cache.success", "true") >>
        Out(r) == IF r.err # NoErr THEN [err |-> r.err] ELSE [err |-> NoErr]
        Wrapped(r) ==
            [ev |-> pre \o Tags(r) \o << EvCall(me, [err |-> r.err], Out(r)), EvFinish(me) >>,
             err |-> Out(r).err, cache |-> r.cache]
    IN Wrapped(CacheRepository_Delete(ca, key, f))

\* -------------------------------------------- tracing.UserRepositoryTracer
UserRepositoryTracer_Create(st, user, f, parent) ==
    LET me == "UserRepositoryTracer.Create"
        pre == << EvStart(me, "mysql.create_user", parent),
                  EvTag(me, "db.type", "mysql"),
                  EvTag(me, "db.operation", "INSERT"),
                  EvTag(me, "user.name", user.Name),
                  EvTag(me, "user.email", user.Email) >>
        Tags(r) == IF r.err # NoErr
                   THEN << EvTag(me, "error", "true"),
                           EvTag(me, "error.msg", r.err),
                           EvTag(me, "query.success", "false") >>
                   ELSE << EvTag(me, "user.id", FormatUint(r.user.ID)),
                           EvTag(me, "query.success", "true") >>
        Out(r) == IF r.err # NoErr THEN [err |-> r.err] ELSE [err |-> NoErr]
        Wrapped(r) ==
            [ev |-> pre \o r.ev \o Tags(r)
                        \o << EvCall(me, [err |-> r.err], Out(r)), EvFinish(me) >>,
             err |-> Out(r).err, user |-> r.user, store |-> r.store]
    IN Wrapped(UserRepository_Create(st, user, f, me))

UserRepositoryTracer_FindByID(st, id, f, parent) ==
    LET me == "UserRepositoryTracer.FindByID"
        pre == << EvStart(me, "mysql.find_user_by_id", parent),
                  EvTag(me, "db.type", "mysql"),
                  EvTag(me, "db.operation", "SELECT"),
                  EvTag(me, "user.id", FormatUint(id)) >>
        Tags(r) == IF r.err # NoErr
                   THEN << EvTag(me, "error", "true"),
                           EvTag(me, "error.msg", r.err),
                           EvTag(me, "query.success", "false") >>
                   ELSE << EvTag(me, "user.name", r.user[1].Name),
                           EvTag(me, "user.email", r.user[1].Email),
                           EvTag(me, "query.success", "true") >>
        Out(r) == IF r.err # NoErr THEN [user |-> <<>>, err |-> r.err]
                  ELSE [user |-> r.user, err |-> NoErr]
        Wrapped(r) ==
            [ev |-> pre \o r.ev \o Tags(r)
                        \o << EvCall(me, [user |-> r.user, err |-> r.err], Out(r)),
                              EvFinish(me) >>,
             user |-> Out(r).user, err |-> Out(r).err]
    IN Wrapped(UserRepository_FindByID(st, id, f, me))

UserRepositoryTracer_FindAll(st, f, parent) ==
    LET me == "UserRepositoryTracer.FindAll"
        pre == << EvStart(me, "mysql.find_all_users", parent),
                  EvTag(me, "db.type", "mysql"),
                  EvTag(me, "db.operation", "SELECT") >>
        Tags(r) == IF r.err # NoErr
                   THEN << EvTag(me, "error", "true"),
                           EvTag(me, "error.msg", r.err),
                           EvTag(me, "query.success", "false") >>
                   ELSE << EvTag(me, "users.count", FormatUint(Len(r.users))),
                           EvTag(me, "query.success", "true") >>
        Out(r) == IF r.err # NoErr THEN [users |-> <<>>, err |-> r.err]
                  ELSE [users |-> r.users, err |-> NoErr]
        Wrapped(r) ==
            [ev |-> pre \o r.ev \o Tags(r)
                        \o << EvCall(me, [users |-> r.users, err |-> r.err], Out(r)),
                              EvFinish(me) >>,
             users |-> Out(r).users, err |-> Out(r).err]
    IN Wrapped(UserRepository_FindAll(st, f, me))

\* ------------------------------------------------------------ RepoLocator
\* RUser is the tracing decorator under main's wiring and the plain MySQL
\* repository under SetupRepositories'; RCache is always the decorator.
RUser_Create(st, user, f, parent) ==
    IF cfg.tracedUser THEN UserRepositoryTracer_Create(st, user, f, parent)
    ELSE UserRepository_Create(st, user, f, parent)

RUser_FindByID(st, id, f, parent) ==
    IF cfg.tracedUser THEN UserRepositoryTracer_FindByID(st, id, f, parent)
    ELSE UserRepository_FindByID(st, id, f, parent)

RUser_FindAll(st, f, parent) ==
    IF cfg.tracedUser THEN UserRepositoryTracer_FindAll(st, f, parent)
    ELSE UserRepository_FindAll(st, f, parent)

\* ------------------------------------------------------- usecase.UserUseCase
\* faulty variant: a failed cache Set fails the whole CreateUser
CreateUser_SetFailureFails(st, ca, name, email, t, f, parent, logger) ==
    LET me == "UserUseCase.CreateUser"
        pre == << EvStart(me, "usecase.create_user", parent),
                  EvTag(me, "user.name", name),
                  EvTag(me, "user.email", email) >>
               \o LogWithTrace(me, logger, "usecase", "Creating user", <<>>)
        Cached(c, key, s) ==
            [ev |-> pre \o c.ev
                    \o << EvTag(me, "user.id", FormatUint(c.user.ID)) >>
                    \o s.ev
                    \o (IF s.err # NoErr
                        THEN << EvTag(me, "error", "true"), EvTag(me, "cache.set", "false") >>
                        ELSE << EvTag(me, "cache.set", "true") >>)
                    \o << EvFinish(me) >>,
             user |-> IF s.err # NoErr THEN <<>> ELSE <<c.user>>,
             err |-> s.err, store |-> c.store, cache |-> s.cache]
        Created(c) ==
            IF c.err # NoErr
            THEN [ev |-> pre \o c.ev \o << EvTag(me, "error", "true"), EvFinish(me) >>,
                  user |-> <<>>, err |-> Wrap("failed to create user", c.err),
                  store |-> c.store, cache |-> ca]
            ELSE Cached(c, CacheKey(c.user.ID),
                        CacheRepositoryTracer_Set(ca, CacheKey(c.user.ID), Marshal(c.user),
                                                  f, me))
    IN Created(RUser_Create(st, User(0, name, email, t), f, me))

\* CreateUser: persist first, then best-effort cache populate
UserUseCase_CreateUser(st, ca, name, email, t, f, parent, logger) ==
    LET me == "UserUseCase.CreateUser"
        pre == << EvStart(me, "usecase.create_user", parent),
                  EvTag(me, "user.name", name),
                  EvTag(me, "user.email", email) >>
               \o LogWithTrace(me, logger, "usecase", "Creating user", <<>>)
        Failed(c) ==
            [ev |-> pre \o c.ev
                    \o << EvTag(me, "error", "true"), EvTag(me, "error.msg", c.err) >>
                    \o LogErrorWithTrace(me, logger, "usecase",
                                         "Failed to create user in repository", c.err, <<>>)
                    \o << EvFinish(me) >>,
             user |-> <<>>, err |-> Wrap("failed to create user", c.err),
             store |-> c.store, cache |-> ca]
        Cached(c, key, s) ==
            [ev |-> pre \o c.ev
                    \o << EvTag(me, "user.id", FormatUint(c.user.ID)) >>
                    \o LogWithTrace(me, logger, "usecase", "User created, setting cache", <<>>)
                    \o s.ev
                    \o (IF s.err # NoErr
                        THEN << EvTag(me, "cache.error", s.err),
                                EvTag(me, "cache.set", "false") >>
                             \o LogErrorWithTrace(me, logger, "usecase",
                                                  "Failed to set user cache", s.err,
                                                  << <<"cache.key", key>> >>)
                        ELSE << EvTag(me, "cache.set", "true") >>
                             \o LogWithTrace(me, logger, "usecase",
                                             "User cached successfully",
                                             << <<"cache.key", key>> >>))
                    \o << EvFinish(me) >>,
             user |-> <<c.user>>, err |-> NoErr, store |-> c.store, cache |-> s.cache]
        Created(c) ==
            IF c.err # NoErr THEN Failed(c)
            ELSE Cached(c, CacheKey(c.user.ID),
                        CacheRepositoryTracer_Set(ca, CacheKey(c.user.ID), Marshal(c.user),
                                                  f, me))
    IN Created(RUser_Create(st, User(0, name, email, t), f, me))

\* faulty variant: the cached value is never used
IsCacheHit_Never(g) == FALSE

\* GetUser's test on the result of RCache.Get: err == nil && cachedData != ""
IsCacheHit(g) == g.err = NoErr /\ g.value # EmptyString

\* GetUser: cache first, then the store, then best-effort cache populate
UserUseCase_GetUser(st, ca, id, f, parent, logger) ==
    LET me == "UserUseCase.GetUser"
        key == CacheKey(id)
        pre == << EvStart(me, "usecase.get_user", parent),
                  EvTag(me, "user.id", FormatUint(id)) >>
               \o LogWithTrace(me, logger, "usecase", "Getting user by ID", <<>>)
        Hit(g) == IsCacheHit(g)
        OnHit(g) ==
            IF Hit(g)
            THEN << EvTag(me, "cache.hit", "true"), EvTag(me, "data.source", "cache") >>
            ELSE <<>>
        Miss(g) ==
            pre \o g.ev \o OnHit(g)
                \o << EvTag(me, "cache.hit", "false"),
                      EvTag(me, "data.source", "database") >>
                \o LogWithTrace(me, logger, "usecase",
                                "Cache miss, fetching from database", <<>>)
        FromCache(g, u) ==
            [ev |-> pre \o g.ev \o OnHit(g)
                    \o << EvTag(me, "user.name", u.user.Name),
                          EvTag(me, "user.email", u.user.Email) >>
                    \o LogWithTrace(me, logger, "usecase", "User found in cache",
                                    << <<"cache.key", key>> >>)
                    \o << EvFinish(me) >>,
             user |-> <<u.user>>, err |-> NoErr, cache |-> ca]
        Failed(miss, d) ==
            [ev |-> miss \o d.ev
                    \o << EvTag(me, "error", "true"), EvTag(me, "error.msg", d.err) >>
                    \o LogErrorWithTrace(me, logger, "usecase",
                                         "Failed to get user from repository", d.err, <<>>)
                    \o << EvFinish(me) >>,
             user |-> <<>>, err |-> Wrap("user not found", d.err), cache |-> ca]
        Cached(miss, d, s) ==
            [ev |-> miss \o d.ev
                    \o << EvTag(me, "user.name", d.user[1].Name),
                          EvTag(me, "user.email", d.user[1].Email) >>
                    \o LogWithTrace(me, logger, "usecase",
                                    "User found in database, setting cache",
                                    << <<"cache.key", key>> >>)
                    \o s.ev
                    \o (IF s.err # NoErr
                        THEN << EvTag(me, "cache.set", "false"),
                                EvTag(me, "cache.error", s.err) >>
                             \o LogErrorWithTrace(me, logger, "usecase",
                                                  "Failed to set user cache", s.err,
                                                  << <<"cache.key", key>> >>)
                        ELSE << EvTag(me, "cache.set", "true") >>)
                    \o << EvFinish(me) >>,
             user |-> d.user, err |-> NoErr, cache |-> s.cache]
        Found(miss, d) ==
            IF d.err # NoErr THEN Failed(miss, d)
            ELSE Cached(miss, d,
                        CacheRepositoryTracer_Set(ca, key, Marshal(d.user[1]), f, me))
        Got(g) ==
            IF Hit(g) /\ Unmarshal(g.value).ok
            THEN FromCache(g, Unmarshal(g.value))
            ELSE Found(Miss(g), RUser_FindByID(st, id, f, me))
    IN Got(CacheRepositoryTracer_Get(ca, key, f, me))

UserUseCase_GetAllUsers(st, f, parent, logger) ==
    LET me == "UserUseCase.GetAllUsers"
        pre == << EvStart(me, "usecase.get_all_users", parent),
                  EvTag(me, "data.source", "database") >>
               \o LogWithTrace(me, logger, "usecase", "Fetching all users", <<>>)
        Fetched(a) ==
          IF a.err # NoErr
          THEN [ev |-> pre \o a.ev
                    \o << EvTag(me, "error", "true"), EvTag(me, "error.msg", a.err) >>
                    \o LogErrorWithTrace(me, logger, "usecase",
                                         "Failed to fetch users from repository", a.err, <<>>)
                    \o << EvFinish(me) >>,
             users |-> <<>>, err |-> Wrap("failed to get users", a.err)]
          ELSE [ev |-> pre \o a.ev
                    \o << EvTag(me, "users.count", FormatUint(Len(a.users))),
                          EvTag(me, "query.success", "true") >>
                    \o LogWithTrace(me, logger, "usecase", "Users fetched successfully", <<>>)
                    \o << EvFinish(me) >>,
             users |-> a.users, err |-> NoErr]
    IN Fetched(RUser_FindAll(st, f, me))

\* TestPanic: calls the repository method that panics; the deferred Finish of
\* the use-case span runs while the panic unwinds
UserUseCase_TestPanic(f, parent, logger) ==
    LET me == "UserUseCase.TestPanic"
        pre == << EvStart(me, "usecase.test_panic", parent),
                  EvTag(me, "test.type", "panic_recovery") >>
               \o LogWithTrace(me, logger, "usecase", "Test panic called", <<>>)
        Called(r) ==
          IF r.panic # NoPanic
          THEN [ev |-> pre \o r.ev \o << EvFinish(me) >>, err |-> NoErr, panic |-> r.panic]
          ELSE IF r.err # NoErr
          THEN [ev |-> pre \o r.ev
                    \o << EvTag(me, "error", "true"), EvTag(me, "error.msg", r.err) >>
                    \o LogErrorWithTrace(me, logger, "usecase",
                                         "Repository returned error", r.err, <<>>)
                    \o << EvFinish(me) >>,
             err |-> Wrap("test panic failed", r.err), panic |-> NoPanic]
          ELSE [ev |-> pre \o r.ev \o << EvFinish(me) >>, err |-> NoErr, panic |-> NoPanic]
    IN Called(UserRepository_TestPanic(f, me))

\* ------------------------------------------------------- response.ProblemDetail
NewProblemDetail(errorType, title, status, detail, instance) ==
    [Type |-> errorType, Title |-> title, Status |-> status, Detail |-> detail,
     Instance |-> instance, Notify |-> "unset"]

NewInternalErrorProblem(detail, instance, notify) ==
    [NewProblemDetail(ErrorTypeInternal, "Internal Server Error",
                      StatusInternalServerError, detail, instance)
        EXCEPT !.Notify = IF notify THEN "true" ELSE "false"]

NewValidationErrorProblem(detail, instance) ==
    [NewProblemDetail(ErrorTypeValidation, "Validation Error", StatusBadRequest,
                      detail, instance)
        EXCEPT !.Notify = "false"]

\* faulty variant: a missing entity is reported as an alerting internal error
NotFound_AsInternal(detail, instance) == NewInternalErrorProblem(detail, instance, TRUE)

NewNotFoundProblem(detail, instance) ==
    [NewProblemDetail(ErrorTypeNotFound, "Not Found", StatusNotFound, detail, instance)
        EXCEPT !.Notify = "false"]

\* encoding/json of a ProblemDetail: Extra is tagged json:"-", trace_id and
\* span_id are empty and omitted, notify is omitted when unset
ProblemJSON(p) ==
    << <<"type", p.Type>>, <<"title", p.Title>>, <<"status", FormatUint(p.Status)>>,
       <<"detail", p.Detail>>, <<"instance", p.Instance>> >>
    \o (IF p.Notify = "unset" THEN <<>> ELSE << <<"notify", p.Notify>> >>)

\* ---------------------------------------------------------------- handlers
\* appcontext.GetLogger: the logger stored in ctx, or a fresh default logger
GetLogger(ctx) == IF ctx.logger THEN "app" ELSE "fallback"

\* appcontext.GetRepoLocator: the locator stored in ctx, or nil
GetRepoLocator(ctx) == IF ctx.locator THEN "locator" ELSE "nil"

\* c.JSON: sets the Content-Type header, commits the status and writes the
\* body; the error of a failed write is returned to the caller
JSON(by, status, body, f) ==
    [ev |-> << EvRespond(by, status,
                         << <<"Content-Type", "application/json; charset=UTF-8">> >>,
                         body, f.write) >>,
     err |-> IF f.write = "fail" THEN "write: broken pipe" ELSE NoErr]

Path(r) ==
    CASE r.route = "GET /health" -> "/health"
      [] r.route = "POST /api/users" -> "/api/users"
      [] r.route = "GET /api/users" -> "/api/users"
      [] r.route = "GET /api/users/:id" -> "/api/users/" \o r.id
      [] r.route = "GET /api/panic" -> "/api/panic"

Method(r) == IF r.route = "POST /api/users" THEN "POST" ELSE "GET"

HttpTags(me, r) ==
    << EvTag(me, "http.method", Method(r)), EvTag(me, "http.url", Path(r)) >>

HandlerResult(ev, err, panic, st, ca) ==
    [ev |-> ev, err |-> err, panic |-> panic, store |-> st, cache |-> ca]

HealthHandler_HealthCheck(r, ctx, st, ca, t, f) ==
    LET me == "HealthHandler.HealthCheck"
        logger == GetLogger(ctx)
        j == JSON(me, StatusOK, << <<"success", "true">>,
                                   <<"message", "Service is healthy">> >>, f)
    IN HandlerResult(
         << EvStart(me, "handler.health_check", ctx.span) >>
           \o HttpTags(me, r) \o << EvTag(me, "health.status", "healthy") >>
           \o LogWithTrace(me, logger, "handler", "Health check endpoint called", <<>>)
           \o j.ev \o << EvFinish(me) >>,
         j.err, NoPanic, st, ca)

\* faulty variant: the handler's span is left open by the panic
NilLocator_SpanLeftOpen(me, name, ctx, st, ca) ==
    HandlerResult(<< EvStart(me, name, ctx.span) >>, NoErr, NilDereference, st, ca)

\* a handler that dereferences a nil locator: its span was opened and its
\* deferred Finish runs while the panic leaves the handler
NilLocator(me, name, ctx, st, ca) ==
    HandlerResult(<< EvStart(me, name, ctx.span), EvFinish(me) >>,
                  NoErr, NilDereference, st, ca)

UserHandler_CreateUser(r, ctx, st, ca, t, f) ==
    LET me == "UserHandler.CreateUser"
        logger == GetLogger(ctx)
        pre == << EvStart(me, "handler.create_user", ctx.span) >> \o HttpTags(me, r)
        bad == NewValidationErrorProblem(
                 "Request body is not valid JSON or does not match expected schema", Path(r))
        jb == JSON(me, bad.Status, ProblemJSON(bad), f)
        internal == NewInternalErrorProblem("Failed to create user due to internal error",
                                            Path(r), TRUE)
        ji == JSON(me, internal.Status, ProblemJSON(internal), f)
        Done(u) ==
          LET jo == JSON(me, StatusCreated,
                   << <<"success", "true">>, <<"data", Marshal(u.user[1])>>,
                      <<"message", "User created successfully">> >>, f)
          IN IF GetRepoLocator(ctx) = "nil"
       THEN NilLocator(me, "handler.create_user", ctx, st, ca)
       ELSE IF ~r.bodyOK
       THEN HandlerResult(
              pre \o LogErrorWithTrace(me, logger, "handler",
                                       "Failed to decode request body",
                                       "code=400, message=Syntax error", <<>>)
                  \o << EvTag(me, "error", "true"),
                        EvTag(me, "error.msg", "code=400, message=Syntax error") >>
                  \o jb.ev \o << EvFinish(me) >>,
              jb.err, NoPanic, st, ca)
       ELSE IF u.err # NoErr
       THEN HandlerResult(
              pre \o << EvTag(me, "user.name", r.name), EvTag(me, "user.email", r.email) >>
                  \o u.ev
                  \o LogErrorWithTrace(me, logger, "handler", "Failed to create user",
                                       u.err, <<>>)
                  \o << EvTag(me, "error", "true"), EvTag(me, "error.msg", u.err) >>
                  \o ji.ev \o << EvFinish(me) >>,
              ji.err, NoPanic, u.store, u.cache)
       ELSE HandlerResult(
              pre \o << EvTag(me, "user.name", r.name), EvTag(me, "user.email", r.email) >>
                  \o u.ev
                  \o << EvTag(me, "user.id", FormatUint(u.user[1].ID)) >>
                  \o LogWithTrace(me, logger, "handler", "User created successfully", <<>>)
                  \o jo.ev \o << EvFinish(me) >>,
              jo.err, NoPanic, u.store, u.cache)
    IN Done(UserUseCase_CreateUser(st, ca, r.name, r.email, t, f, me, logger))

UserHandler_GetUser(r, ctx, st, ca, t, f) ==
    LET me == "UserHandler.GetUser"
        logger == GetLogger(ctx)
        pre == << EvStart(me, "handler.get_user", ctx.span) >> \o HttpTags(me, r)
        id == Atoi(r.id)
        bad == NewValidationErrorProblem("User ID must be a valid integer", Path(r))
        jb == JSON(me, bad.Status, ProblemJSON(bad), f)
        nf == NewNotFoundProblem("User with the specified ID does not exist", Path(r))
        jn == JSON(me, nf.Status, ProblemJSON(nf), f)
        Done(u) ==
          LET jo == JSON(me, StatusOK,
                   << <<"success", "true">>, <<"data", Marshal(u.user[1])>> >>, f)
          IN IF GetRepoLocator(ctx) = "nil"
       THEN NilLocator(me, "handler.get_user", ctx, st, ca)
       ELSE IF ~id.ok
       THEN HandlerResult(
              pre \o << EvTag(me, "error", "true"),
                        EvTag(me, "error.msg", "Invalid user ID") >>
                  \o jb.ev \o << EvFinish(me) >>,
              jb.err, NoPanic, st, ca)
       ELSE IF u.err # NoErr
       THEN HandlerResult(
              pre \o << EvTag(me, "user.id", r.id) >> \o u.ev
                  \o LogErrorWithTrace(me, logger, "handler", "Failed to get user",
                                       u.err, <<>>)
                  \o << EvTag(me, "error", "true"), EvTag(me, "error.msg", u.err) >>
                  \o jn.ev \o << EvFinish(me) >>,
              jn.err, NoPanic, st, u.cache)
       ELSE HandlerResult(
              pre \o << EvTag(me, "user.id", r.id) >> \o u.ev
                  \o << EvTag(me, "user.name", u.user[1].Name),
                        EvTag(me, "user.email", u.user[1].Email) >>
                  \o LogWithTrace(me, logger, "handler", "User retrieved successfully", <<>>)
                  \o jo.ev \o << EvFinish(me) >>,
              jo.err, NoPanic, st, u.cache)
    IN Done(UserUseCase_GetUser(st, ca, id.n, f, me, logger))

UserHandler_GetAllUsers(r, ctx, st, ca, t, f) ==
    LET me == "UserHandler.GetAllUsers"
        logger == GetLogger(ctx)
        pre == << EvStart(me, "handler.get_all_users", ctx.span) >> \o HttpTags(me, r)
        internal == NewInternalErrorProblem("Failed to retrieve users from database",
                                            Path(r), TRUE)
        ji == JSON(me, internal.Status, ProblemJSON(internal), f)
        Done(u) ==
          LET jo == JSON(me, StatusOK,
                   << <<"success", "true">>,
                      <<"data", [i \in 1..Len(u.users) |-> Marshal(u.users[i])]>> >>, f)
          IN IF GetRepoLocator(ctx) = "nil"
       THEN NilLocator(me, "handler.get_all_users", ctx, st, ca)
       ELSE IF u.err # NoErr
       THEN HandlerResult(
              pre \o u.ev
                  \o LogErrorWithTrace(me, logger, "handler", "Failed to get users",
                                       u.err, <<>>)
                  \o << EvTag(me, "error", "true"), EvTag(me, "error.msg", u.err) >>
                  \o ji.ev \o << EvFinish(me) >>,
              ji.err, NoPanic, st, ca)
       ELSE HandlerResult(
              pre \o u.ev
                  \o << EvTag(me, "users.count", FormatUint(Len(u.users))) >>
                  \o LogWithTrace(me, logger, "handler", "Users retrieved successfully", <<>>)
                  \o jo.ev \o << EvFinish(me) >>,
              jo.err, NoPanic, st, ca)
    IN Done(UserUseCase_GetAllUsers(st, f, me, logger))

TestHandler_PanicEndpoint(r, ctx, st, ca, t, f) ==
    LET me == "TestHandler.PanicEndpoint"
        logger == GetLogger(ctx)
        pre == << EvStart(me, "handler.panic_endpoint", ctx.span) >> \o HttpTags(me, r)
               \o << EvTag(me, "test.type", "panic_simulation") >>
               \o LogWithTrace(me, logger, "handler", "Panic endpoint called", <<>>)
        internal == NewInternalErrorProblem("Test panic failed", Path(r), TRUE)
        ji == JSON(me, internal.Status, ProblemJSON(internal), f)
        Done(u) ==
          LET jo == JSON(me, StatusOK,
                   << <<"success", "true">>, <<"message", "Panic test completed">> >>, f)
          IN IF GetRepoLocator(ctx) = "nil"
       THEN HandlerResult(pre \o << EvFinish(me) >>, NoErr, NilDereference, st, ca)
       ELSE IF u.panic # NoPanic
       THEN HandlerResult(pre \o u.ev \o << EvFinish(me) >>, NoErr, u.panic, st, ca)
       ELSE IF u.err # NoErr
       THEN HandlerResult(
              pre \o u.ev
                  \o LogErrorWithTrace(me, logger, "handler", "Test panic returned error",
                                       u.err, <<>>)
                  \o << EvTag(me, "error", "true"), EvTag(me, "error.msg", u.err) >>
                  \o ji.ev \o << EvFinish(me) >>,
              ji.err, NoPanic, st, ca)
       ELSE HandlerResult(pre \o u.ev \o jo.ev \o << EvFinish(me) >>, jo.err, NoPanic, st, ca)
    IN Done(UserUseCase_TestPanic(f, me, logger))

\* ------------------------------------------------------------- middlewares
\* router.Setup: e.Use registers outermost first
Chain ==
    (IF cfg.logger THEN <<"logger">> ELSE <<>>)
    \o (IF cfg.locator THEN <<"locator">> ELSE <<>>)
    \o <<"tracing", "recovery", "cors">>

Routes ==
    {"GET /health", "POST /api/users", "GET /api/users", "GET /api/users/:id"}
    \cup (IF cfg.tracedUser THEN {} ELSE {"GET /api/panic"})

Frame(mw, span) == [mw |-> mw, span |-> span]
Top == stack[Len(stack)]
Pop == SubSeq(stack, 1, Len(stack) - 1)

NoResult == [err |-> NoErr, panic |-> NoPanic]
NoRec == [state |-> "Idle", traceID |-> "", spanID |-> "", inner |-> NoErr,
          caught |-> NoPanic]
NoReq == [route |-> "", id |-> "", name |-> "", email |-> "", bodyOK |-> TRUE]
NoCtx == [span |-> "", logger |-> FALSE, locator |-> FALSE]
NoTraceOp == [fn |-> "none", err |-> NoErr, panic |-> NoPanic]

EmptyCache == [k \in {} |-> EmptyString]
Alice == User(1, "Alice", "alice@example.com", 0)
CacheSeeds ==
    {EmptyCache} \cup {[k \in {CacheKey(1)} |-> v] : v \in {Marshal(Alice), Garbage, EmptyString}}

Cur == Trace(spans, logs, resp, calls)

\* play an event list on the trace of the request
Play(evs) ==
    LET w == Apply(Cur, evs) IN
    /\ spans' = w.spans
    /\ logs' = w.logs
    /\ resp' = w.resp
    /\ calls' = w.calls

Init ==
    /\ cfg \in [logger : BOOLEAN, locator : BOOLEAN, ver : {1, 2}, tracedUser : BOOLEAN]
    /\ appLogger = [formatter |-> "json", output |-> "stdout", level |-> "info"]
    /\ store = <<Alice>>
    /\ cache \in CacheSeeds
    /\ now = 0
    /\ phase = "idle"
    /\ req = NoReq
    /\ nextMw = 1
    /\ stack = <<>>
    /\ reqCtx = NoCtx
    /\ spans = <<>>
    /\ logs = <<>>
    /\ resp = <<>>
    /\ calls = <<>>
    /\ result = NoResult
    /\ rec = NoRec
    /\ traceOp = NoTraceOp
    /\ warm = {}
    /\ sharedWrites = {}
    /\ ctxs = <<>>
    /\ procs = <<>>

\* the server accepts a request: a fresh echo.Context and request context
NewRequest ==
    /\ phase \in {"idle", "done"}
    /\ \E route \in Routes :
       \E id \in (IF route = "GET /api/users/:id" THEN IdParams ELSE {""}) :
       \E name \in (IF route = "POST /api/users" THEN Names ELSE {""}) :
       \E email \in (IF route = "POST /api/users" THEN Emails ELSE {""}) :
       \E ok \in (IF route = "POST /api/users" THEN BOOLEAN ELSE {TRUE}) :
          req' = [route |-> route, id |-> id, name |-> name, email |-> email, bodyOK |-> ok]
    /\ phase' = "down"
    /\ nextMw' = 1
    /\ stack' = <<>>
    /\ reqCtx' = NoCtx
    /\ spans' = <<>>
    /\ logs' = <<>>
    /\ resp' = <<>>
    /\ calls' = <<>>
    /\ result' = NoResult
    /\ rec' = NoRec
    /\ traceOp' = NoTraceOp
    /\ UNCHANGED <<cfg, appLogger, store, cache, now>>
    /\ UNCHANGED <<warm, sharedWrites, ctxs, procs>>

Entering(mw) == phase = "down" /\ nextMw <= Len(Chain) /\ Chain[nextMw] = mw

\* EchoLoggerMiddleware: span, logger into the request context, next
EnterLogger ==
    /\ Entering("logger")
    /\ Play(<< EvStart("EchoLoggerMiddleware", "middleware.logger", reqCtx.span) >>)
    /\ reqCtx' = [reqCtx EXCEPT !.span = "EchoLoggerMiddleware", !.logger = TRUE]
    /\ stack' = Append(stack, Frame("logger", "EchoLoggerMiddleware"))
    /\ nextMw' = nextMw + 1
    /\ UNCHANGED <<cfg, appLogger, store, cache, now, phase, req, result, rec, traceOp>>
    /\ UNCHANGED <<warm, sharedWrites, ctxs, procs>>

\* EchoRepoLocatorMiddleware: locator into the request context, next
EnterLocator ==
    /\ Entering("locator")
    /\ reqCtx' = [reqCtx EXCEPT !.locator = TRUE]
    /\ stack' = Append(stack, Frame("locator", ""))
    /\ nextMw' = nextMw + 1
    /\ UNCHANGED <<cfg, appLogger, store, cache, now, phase, req, spans, logs, resp,
                   calls, result, rec, traceOp>>
    /\ UNCHANGED <<warm, sharedWrites, ctxs, procs>>

\* echotrace.Middleware: the request's http.request span
EnterTracing ==
    /\ Entering("tracing")
    /\ Play(<< EvStart("echotrace.Middleware", "http.request", reqCtx.span) >>)
    /\ reqCtx' = [reqCtx EXCEPT !.span = "echotrace.Middleware"]
    /\ stack' = Append(stack, Frame("tracing", "echotrace.Middleware"))
    /\ nextMw' = nextMw + 1
    /\ UNCHANGED <<cfg, appLogger, store, cache, now, phase, req, result, rec, traceOp>>
    /\ UNCHANGED <<warm, sharedWrites, ctxs, procs>>

\* EchoRecoveryMiddleware up to next(c): the second variant opens its own span
\* and captures its ids, the first captures the ids of the span in the
\* request context; both install the deferred recover
Captured(ss, owner) ==
    LET i == SpanOf(ss, owner) IN
    IF i = 0 THEN [traceID |-> "", spanID |-> ""]
    ELSE [traceID |-> FormatUint(ss[i].trace), spanID |-> FormatUint(ss[i].id)]

EnterRecovery ==
    /\ Entering("recovery")
    /\ IF cfg.ver = 2
       THEN /\ Play(<< EvStart("EchoRecoveryMiddleware", "middleware.recovery",
                               reqCtx.span) >>)
            /\ reqCtx' = [reqCtx EXCEPT !.span = "EchoRecoveryMiddleware"]
            /\ stack' = Append(stack, Frame("recovery", "EchoRecoveryMiddleware"))
            /\ rec' = [rec EXCEPT !.state = "Executing",
                                  !.traceID = Captured(spans', "EchoRecoveryMiddleware").traceID,
                                  !.spanID = Captured(spans', "EchoRecoveryMiddleware").spanID]
       ELSE /\ UNCHANGED <<spans, logs, resp, calls, reqCtx>>
            /\ stack' = Append(stack, Frame("recovery", ""))
            /\ rec' = [rec EXCEPT !.state = "Executing",
                                  !.traceID = Captured(spans, reqCtx.span).traceID,
                                  !.spanID = Captured(spans, reqCtx.span).spanID]
    /\ nextMw' = nextMw + 1
    /\ UNCHANGED <<cfg, appLogger, store, cache, now, phase, req, result, traceOp>>
    /\ UNCHANGED <<warm, sharedWrites, ctxs, procs>>

\* EchoCORSMiddleware: span, request context updated, Echo's CORS, next
EnterCORS ==
    /\ Entering("cors")
    /\ Play(<< EvStart("EchoCORSMiddleware", "middleware.cors", reqCtx.span) >>)
    /\ reqCtx' = [reqCtx EXCEPT !.span = "EchoCORSMiddleware"]
    /\ stack' = Append(stack, Frame("cors", "EchoCORSMiddleware"))
    /\ nextMw' = nextMw + 1
    /\ UNCHANGED <<cfg, appLogger, store, cache, now, phase, req, result, rec, traceOp>>
    /\ UNCHANGED <<warm, sharedWrites, ctxs, procs>>

\* The deferred recover of EchoRecoveryMiddleware: logger from the request
\* context, one LogErrorWithTrace with the captured ids among the fields, error
\* tags on the span of the request context.
RecoverLog(r, ctx, captured, p) ==
    LET logger == GetLogger(ctx)
        ids == IF captured.traceID # "" /\ captured.spanID # ""
               THEN << <<"dd.trace_id", captured.traceID>>,
                       <<"dd.span_id", captured.spanID>> >>
               ELSE <<>>
        logFields == << <<"panic.value", p.msg>>,
                        <<"panic.stack_trace", "debug.Stack">>,
                        <<"http.method", Method(r)>>,
                        <<"http.url", Path(r)>> >> \o ids
        tags == IF ctx.span = "" THEN <<>>
                ELSE << EvTag(ctx.span, "error", "true"),
                        EvTag(ctx.span, "error.type", "panic"),
                        EvTag(ctx.span, "error.msg", p.msg),
                        EvTag(ctx.span, "error.stack", "debug.Stack"),
                        EvTag(ctx.span, "error.notify", "true") >>
    IN LogErrorWithTrace(ctx.span, logger, "middleware", "Panic recovered",
                         "panic recovered: " \o p.msg, logFields)
       \o tags

\* c.JSON(500, {"error": "Internal Server Error"})
RecoverRespond(f) ==
    JSON("EchoRecoveryMiddleware", StatusInternalServerError,
         << <<"error", "Internal Server Error">> >>, f)

\* faulty variant: the panic is logged but no response is written
Recover_NoResponse(r, ctx, captured, p, f) ==
    [ev |-> RecoverLog(r, ctx, captured, p), err |-> NoErr, panic |-> NoPanic]

\* faulty variant: the result of c.JSON is returned to the outer layers
Recover_ReturnsWriteError(r, ctx, captured, p, f) ==
    [ev |-> RecoverLog(r, ctx, captured, p) \o RecoverRespond(f).ev,
     err |-> RecoverRespond(f).err, panic |-> NoPanic]

\* faulty variant: the response tells the caller what the panic value was
Recover_EchoesPanic(r, ctx, captured, p, f) ==
    [ev |-> RecoverLog(r, ctx, captured, p)
            \o JSON("EchoRecoveryMiddleware", StatusInternalServerError,
                    << <<"error", "panic recovered: " \o p.msg>> >>, f).ev,
     err |-> NoErr, panic |-> NoPanic]

\* The whole deferred recover: log, tags, response; the result of c.JSON is
\* dropped and the middleware returns the zero error.
EchoRecoveryMiddleware_Recover(r, ctx, captured, p, f) ==
    [ev |-> RecoverLog(r, ctx, captured, p) \o RecoverRespond(f).ev,
     err |-> NoErr, panic |-> NoPanic]

\* faulty variant: the error of the inner chain is swallowed
Return_Swallowed(innerErr) == NoErr

\* return next(c): what the recovery middleware returns when next returned
EchoRecoveryMiddleware_Return(innerErr) == innerErr

\* faulty variant: recovery leaves the shared logger at another level
SetLoggerOptions_Debug(lg, ctx) ==
    IF cfg.ver = 1 /\ GetLogger(ctx) = "app"
    THEN [formatter |-> "json", output |-> "stdout", level |-> "debug"]
    ELSE lg

\* the first variant re-applies formatter, output and level to the logger it
\* took from the context
SetLoggerOptions(lg, ctx) ==
    IF cfg.ver = 1 /\ GetLogger(ctx) = "app"
    THEN [formatter |-> "json", output |-> "stdout", level |-> "info"]
    ELSE lg

\* the fields of the process-wide logger that the deferred recover of the
\* first variant assigns: the logger it took from the request context is the
\* one main created, unless no logger was injected and GetLogger made a new one
LoggerFieldsSet(ctx) ==
    IF cfg.ver = 1 /\ GetLogger(ctx) = "app"
    THEN {"logger.Formatter", "logger.Out", "logger.Level"}
    ELSE {}

\* the value of a tag of the span an owner opened; "" when it is not set
TagOf(ss, owner, key) ==
    LET i == SpanOf(ss, owner) IN
    IF i # 0 /\ \E p \in ss[i].tags : p[1] = key
    THEN (CHOOSE p \in ss[i].tags : p[1] = key)[2]
    ELSE ""

\* What the use-case call of a handler leaves behind for the next GetUser of
\* the same id.  A GetUser that went to the store and returned a user, and a
\* CreateUser that returned a user, open a TTL window for the id: the user
\* sent to the client and whether RCache.Set succeeded are kept.  Any other
\* GetUser of the id (a hit, an error) was "the next GetUser" and closes it.
Forget(wm, id) == {e \in wm : e.id # id}

Remember(wm, r, h, w) ==
    LET get == "UserUseCase.GetUser"
        create == "UserUseCase.CreateUser"
        sent == ValueOf(w.resp[Len(w.resp)].body, "data")
    IN IF SpanOf(w.spans, get) # 0
       THEN IF TagOf(w.spans, get, "data.source") = "database"
               /\ TagOf(w.spans, get, "error") = ""
            THEN Forget(wm, Atoi(r.id).n)
                 \cup {[id |-> Atoi(r.id).n, data |-> sent,
                        set |-> TagOf(w.spans, get, "cache.set") = "true"]}
            ELSE Forget(wm, Atoi(r.id).n)
       ELSE IF SpanOf(w.spans, create) # 0 /\ TagOf(w.spans, create, "error") = ""
       THEN Forget(wm, Len(h.store))
            \cup {[id |-> Len(h.store), data |-> sent,
                   set |-> TagOf(w.spans, create, "cache.set") = "true"]}
       ELSE wm

\* the route handler runs to its end: returns an error value or panics
Serve(h, t) ==
    /\ Play(h.ev)
    /\ warm' = Remember(warm, req, h, Apply(Cur, h.ev))
    /\ store' = h.store
    /\ cache' = h.cache
    /\ now' = t
    /\ result' = [err |-> h.err, panic |-> h.panic]
    /\ phase' = IF h.panic # NoPanic THEN "panic" ELSE "up"
    /\ UNCHANGED <<cfg, appLogger, req, nextMw, stack, reqCtx, rec, traceOp>>
    /\ UNCHANGED <<sharedWrites, ctxs, procs>>

AtHandler(route) == phase = "down" /\ nextMw = Len(Chain) + 1 /\ req.route = route

HealthCheck ==
    /\ AtHandler("GET /health")
    /\ \E f \in FaultsOn({"write"}) : Serve(HealthHandler_HealthCheck(req, reqCtx, store, cache, now, f), now)

CreateUser ==
    /\ AtHandler("POST /api/users")
    /\ \E f \in FaultsOn({"db","cset","write"}) : \E t \in now..MaxClock :
          /\ Len(UserHandler_CreateUser(req, reqCtx, store, cache, t, f).store) <= MaxUsers
          /\ Serve(UserHandler_CreateUser(req, reqCtx, store, cache, t, f), t)

GetUser ==
    /\ AtHandler("GET /api/users/:id")
    /\ \E f \in FaultsOn({"db","cget","cset","write"}) : Serve(UserHandler_GetUser(req, reqCtx, store, cache, now, f), now)

GetAllUsers ==
    /\ AtHandler("GET /api/users")
    /\ \E f \in FaultsOn({"db","tie","write"}) : Serve(UserHandler_GetAllUsers(req, reqCtx, store, cache, now, f), now)

PanicEndpoint ==
    /\ AtHandler("GET /api/panic")
    /\ \E f \in FaultsOn({"db","write"}) : Serve(TestHandler_PanicEndpoint(req, reqCtx, store, cache, now, f), now)

Leaving(ph) == phase = ph /\ stack # <<>>
After(ph) == IF Len(stack) = 1 THEN "done" ELSE ph
Deferred(span) == IF span = "" THEN <<>> ELSE << EvFinish(span) >>

\* a middleware other than recovery: next returned, deferred Finish, return
MiddlewareReturn ==
    /\ Leaving("up")
    /\ Top.mw # "recovery"
    /\ Play(Deferred(Top.span))
    /\ stack' = Pop
    /\ phase' = After("up")
    /\ UNCHANGED <<cfg, appLogger, store, cache, now, req, nextMw, reqCtx, result, rec,
                   traceOp>>
    /\ UNCHANGED <<warm, sharedWrites, ctxs, procs>>

\* a middleware other than recovery while a panic unwinds: deferred Finish
MiddlewareUnwind ==
    /\ Leaving("panic")
    /\ Top.mw # "recovery"
    /\ Play(Deferred(Top.span))
    /\ stack' = Pop
    /\ phase' = After("panic")
    /\ UNCHANGED <<cfg, appLogger, store, cache, now, req, nextMw, reqCtx, result, rec,
                   traceOp>>
    /\ UNCHANGED <<warm, sharedWrites, ctxs, procs>>

\* recovery, next returned: recover() yields nil, the result passes through
RecoveryComplete ==
    /\ Leaving("up")
    /\ Top.mw = "recovery"
    /\ Play(Deferred(Top.span))
    /\ result' = [result EXCEPT !.err = EchoRecoveryMiddleware_Return(result.err)]
    /\ rec' = [rec EXCEPT !.state = "Completed", !.inner = result.err]
    /\ stack' = Pop
    /\ phase' = After("up")
    /\ UNCHANGED <<cfg, appLogger, store, cache, now, req, nextMw, reqCtx, traceOp>>
    /\ UNCHANGED <<warm, sharedWrites, ctxs, procs>>

\* recovery, next panicked: the deferred recover, then the deferred Finish
RecoveryRecover ==
    /\ Leaving("panic")
    /\ Top.mw = "recovery"
    /\ \E f \in FaultsOn({"write"}) :
          LET h == EchoRecoveryMiddleware_Recover(req, reqCtx, rec, result.panic, f)
          IN /\ Play(h.ev \o Deferred(Top.span))
             /\ result' = [err |-> h.err, panic |-> h.panic]
             /\ phase' = IF h.panic # NoPanic THEN After("panic") ELSE After("up")
    /\ appLogger' = SetLoggerOptions(appLogger, reqCtx)
    /\ rec' = [rec EXCEPT !.state = "Responded", !.caught = result.panic]
    /\ stack' = Pop
    /\ sharedWrites' = sharedWrites \cup LoggerFieldsSet(reqCtx)
    /\ UNCHANGED <<cfg, store, cache, now, req, nextMw, reqCtx, traceOp>>
    /\ UNCHANGED <<warm, ctxs, procs>>

\* CacheRepositoryTracer.Delete, called with a context that carries no span
DeleteCall ==
    /\ phase \in {"idle", "done"}
    /\ \E f \in FaultsOn({"cset"}) : \E id \in 1..MaxUsers :
          LET d == CacheRepositoryTracer_Delete(cache, CacheKey(id), f, "")
              w == Apply(Trace(<<>>, <<>>, <<>>, <<>>), d.ev)
          IN /\ spans' = w.spans
             /\ logs' = w.logs
             /\ resp' = w.resp
             /\ calls' = w.calls
             /\ cache' = d.cache
             /\ warm' = IF d.err = NoErr THEN Forget(warm, id) ELSE warm
             /\ result' = [err |-> d.err, panic |-> NoPanic]
    /\ req' = [NoReq EXCEPT !.route = "CacheRepositoryTracer.Delete"]
    /\ phase' = "done"
    /\ nextMw' = 1
    /\ stack' = <<>>
    /\ reqCtx' = NoCtx
    /\ rec' = NoRec
    /\ traceOp' = NoTraceOp
    /\ UNCHANGED <<cfg, appLogger, store, now>>
    /\ UNCHANGED <<sharedWrites, ctxs, procs>>

\* Redis drops a key whose TTL (the ttl given to client.Set) has elapsed
Expire ==
    /\ phase \in {"idle", "done"}
    /\ \E id \in 1..MaxUsers :
          /\ CacheKey(id) \in DOMAIN cache
          /\ cache' = [k \in DOMAIN cache \ {CacheKey(id)} |-> cache[k]]
          /\ warm' = Forget(warm, id)
    /\ UNCHANGED <<cfg, appLogger, store, now, phase, req, nextMw, stack, reqCtx,
                   spans, logs, resp, calls, result, rec, traceOp>>
    /\ UNCHANGED <<sharedWrites, ctxs, procs>>

\* tracing.TraceOperation around a function that returns nil, returns an
\* error, or panics
FnOutcomes ==
    {[fn |-> "nil", err |-> NoErr, panic |-> NoPanic],
     [fn |-> "error", err |-> "operation failed", panic |-> NoPanic],
     [fn |-> "panic", err |-> NoErr, panic |-> DeliberatePanic]}

TraceOperation(parent, operationName, tags, fn) ==
    LET me == "TraceOperation" IN
    [ev |-> << EvStart(me, operationName, parent) >>
            \o [i \in 1..Len(tags) |-> EvTag(me, tags[i][1], tags[i][2])]
            \o (IF fn.panic = NoPanic /\ fn.err # NoErr
                THEN << EvTag(me, "error", "true"), EvTag(me, "error.msg", fn.err) >>
                ELSE <<>>)
            \o << EvCall(me, [err |-> fn.err], [err |-> fn.err]), EvFinish(me) >>,
     err |-> fn.err, panic |-> fn.panic]

TraceOperationCall ==
    /\ phase \in {"idle", "done"}
    /\ \E fn \in FnOutcomes :
          LET d == TraceOperation("", "custom.operation", << <<"component", "test">> >>, fn)
              w == Apply(Trace(<<>>, <<>>, <<>>, <<>>), d.ev)
          IN /\ spans' = w.spans
             /\ logs' = w.logs
             /\ resp' = w.resp
             /\ calls' = w.calls
             /\ result' = [err |-> d.err, panic |-> d.panic]
             /\ traceOp' = fn
    /\ req' = [NoReq EXCEPT !.route = "TraceOperation"]
    /\ phase' = "done"
    /\ nextMw' = 1
    /\ stack' = <<>>
    /\ reqCtx' = NoCtx
    /\ rec' = NoRec
    /\ UNCHANGED <<cfg, appLogger, store, cache, now>>
    /\ UNCHANGED <<warm, sharedWrites, ctxs, procs>>

Next ==
    \/ NewRequest
    \/ EnterLogger
    \/ EnterLocator
    \/ EnterTracing
    \/ EnterRecovery
    \/ EnterCORS
    \/ HealthCheck
    \/ CreateUser
    \/ GetUser
    \/ GetAllUsers
    \/ PanicEndpoint
    \/ MiddlewareReturn
    \/ MiddlewareUnwind
    \/ RecoveryComplete
    \/ RecoveryRecover
    \/ DeleteCall
    \/ Expire
    \/ TraceOperationCall

Spec == Init /\ [][Next]_vars

\* ------------------------------------------- the user repository on its own
\* The repository called directly, as its callers may in any order, on users
\* tables of a few rows and of about FindAllLimit rows.  Row i was inserted
\* i-th; the first k rows carry creation time 0 and the others creation time 1.
\* calls keeps the calls made in a row with what each returned.
Row(i, k) ==
    User(i, "user" \o FormatUint(i), "user" \o FormatUint(i) \o "@example.com",
         IF i <= k THEN 0 ELSE 1)

Table(n, k) == [i \in 1..n |-> Row(i, k)]

TableSizes == {n \in {0, 1, 2, 3, MaxRows - 2, MaxRows - 1, MaxRows} : n >= 0}
Splits(n) == {k \in {0, 1, 2, n \div 2, n - 1} : k >= 0 /\ k <= n}

InitFindAll ==
    /\ cfg = [logger |-> TRUE, locator |-> TRUE, ver |-> 2, tracedUser |-> TRUE]
    /\ appLogger = [formatter |-> "json", output |-> "stdout", level |-> "info"]
    /\ \E n \in TableSizes : \E k \in Splits(n) : store = Table(n, k)
    /\ cache = EmptyCache
    /\ now = IF \E i \in 1..Len(store) : store[i].CreatedAt = 1 THEN 1 ELSE 0
    /\ phase = "idle"
    /\ req = NoReq
    /\ nextMw = 1
    /\ stack = <<>>
    /\ reqCtx = NoCtx
    /\ spans = <<>>
    /\ logs = <<>>
    /\ resp = <<>>
    /\ calls = <<>>
    /\ result = NoResult
    /\ rec = NoRec
    /\ traceOp = NoTraceOp
    /\ warm = {}
    /\ sharedWrites = {}
    /\ ctxs = <<>>
    /\ procs = <<>>

\* UserRepositoryTracer.FindAll, called with a context that carries no span
FindAllCall ==
    /\ Len(calls) < MaxCalls
    /\ \E f \in FaultsOn({"db", "tie"}) :
          LET d == UserRepositoryTracer_FindAll(store, f, "")
              w == Apply(Trace(<<>>, <<>>, <<>>, calls), d.ev)
          IN /\ spans' = w.spans
             /\ logs' = w.logs
             /\ resp' = w.resp
             /\ calls' = w.calls
             /\ result' = [err |-> d.err, panic |-> NoPanic]
    /\ req' = [NoReq EXCEPT !.route = "UserRepositoryTracer.FindAll"]
    /\ UNCHANGED <<cfg, appLogger, store, cache, now, phase, nextMw, stack, reqCtx, rec,
                   traceOp, warm, sharedWrites, ctxs, procs>>

\* UserRepositoryTracer.Create, called with a context that carries no span
CreateCall ==
    /\ Len(calls) < MaxCalls
    /\ Len(store) < MaxRows
    /\ \E f \in FaultsOn({"db"}) : \E t \in now..MaxClock :
          LET n == Len(store) + 1
              d == UserRepositoryTracer_Create(
                     store, User(0, "user" \o FormatUint(n),
                                 "user" \o FormatUint(n) \o "@example.com", t), f, "")
              w == Apply(Trace(<<>>, <<>>, <<>>, calls), d.ev)
          IN /\ spans' = w.spans
             /\ logs' = w.logs
             /\ resp' = w.resp
             /\ calls' = w.calls
             /\ store' = d.store
             /\ now' = t
             /\ result' = [err |-> d.err, panic |-> NoPanic]
    /\ req' = [NoReq EXCEPT !.route = "UserRepositoryTracer.Create"]
    /\ UNCHANGED <<cfg, appLogger, cache, phase, nextMw, stack, reqCtx, rec, traceOp, warm,
                   sharedWrites, ctxs, procs>>

NextFindAll ==
    \/ FindAllCall
    \/ CreateCall

SpecFindAll == InitFindAll /\ [][NextFindAll]_vars

\* ------------------------------------------------ the context carrier alone
\* A context value is a node of a tree rooted at context.Background(): the
\* node context.WithValue made holds one key, one value and its parent.  ctxs
\* keeps the nodes made so far, a context is the index of its node and 0 is
\* the background context.  calls keeps the setter calls with their arguments
\* and the context each returned.
MaxCtx == 3            \* context values made with the setters

loggerKey == "logger"
repoLocatorKey == "repo_locator"
interactorKey == "interactor"

\* what a caller may pass: a *logrus.Logger (nil included), a *RepoLocator
\* (nil included), any value as interactor (the nil interface included)
Loggers == {"app", "other", "(*logrus.Logger)(nil)"}
Locators == {"locator", "(*RepoLocator)(nil)"}
Interactors == {"interactor", "app", "nil"}
\* ctx.Value(key): the nearest node holding the key, from the leaf to the root
RECURSIVE Value(_, _, _)
Value(cs, c, key) ==
    IF c = 0 THEN "nil"
    ELSE IF cs[c].key = key THEN cs[c].val
    ELSE Value(cs, cs[c].parent, key)

\* context.WithValue(parent, key, val): a new node; the parent is not touched
WithValue(cs, parent, key, val) ==
    [ctxs |-> Append(cs, [parent |-> parent, key |-> key, val |-> val]),
     ctx |-> Len(cs) + 1]

\* faulty variant: the value is stored in the parent's own node
SetLogger_InPlace(cs, ctx, logger) ==
    IF ctx = 0 THEN WithValue(cs, ctx, loggerKey, logger)
    ELSE [ctxs |-> Append([cs EXCEPT ![ctx] = [@ EXCEPT !.key = loggerKey, !.val = logger]],
                          [parent |-> ctx, key |-> loggerKey, val |-> logger]),
          ctx |-> Len(cs) + 1]

appcontext_SetLogger(cs, ctx, logger) == WithValue(cs, ctx, loggerKey, logger)

\* the type assertion succeeds on whatever SetLogger stored, a nil pointer
\* included; otherwise a new logger
appcontext_GetLogger(cs, ctx) ==
    IF Value(cs, ctx, loggerKey) \in Loggers THEN Value(cs, ctx, loggerKey)
    ELSE "logrus.New()"

appcontext_SetRepoLocator(cs, ctx, locator) == WithValue(cs, ctx, repoLocatorKey, locator)

appcontext_GetRepoLocator(cs, ctx) ==
    IF Value(cs, ctx, repoLocatorKey) \in Locators THEN Value(cs, ctx, repoLocatorKey)
    ELSE "(*RepoLocator)(nil)"

appcontext_SetInteractor(cs, ctx, interactor) == WithValue(cs, ctx, interactorKey, interactor)

appcontext_GetInteractor(cs, ctx) == Value(cs, ctx, interactorKey)

\* what the three getters return on a context
Resolved(cs, ctx) ==
    [logger |-> appcontext_GetLogger(cs, ctx),
     locator |-> appcontext_GetRepoLocator(cs, ctx),
     interactor |-> appcontext_GetInteractor(cs, ctx)]

\* the process after startup, before any call is made
InitIdle ==
    /\ cfg = [logger |-> TRUE, locator |-> TRUE, ver |-> 1, tracedUser |-> TRUE]
    /\ appLogger = [formatter |-> "json", output |-> "stdout", level |-> "info"]
    /\ store = <<Alice>>
    /\ cache = EmptyCache
    /\ now = 0
    /\ phase = "idle"
    /\ req = NoReq
    /\ nextMw = 1
    /\ stack = <<>>
    /\ reqCtx = NoCtx
    /\ spans = <<>>
    /\ logs = <<>>
    /\ resp = <<>>
    /\ calls = <<>>
    /\ result = NoResult
    /\ rec = NoRec
    /\ traceOp = NoTraceOp
    /\ warm = {}
    /\ sharedWrites = {}
    /\ ctxs = <<>>
    /\ procs = <<>>

\* one setter call: its arguments and the context it returned are kept
Called_Setter(op, parent, val, r) ==
    /\ ctxs' = r.ctxs
    /\ calls' = Append(calls, [op |-> op, wrapped |-> [ctx |-> parent, val |-> val],
                              got |-> [ctx |-> r.ctx]])
    /\ UNCHANGED <<cfg, appLogger, store, cache, now, phase, req, nextMw, stack, reqCtx,
                   spans, logs, resp, result, rec, traceOp, warm, sharedWrites, procs>>

SetLoggerCall ==
    /\ Len(ctxs) < MaxCtx
    /\ \E parent \in 0..Len(ctxs) : \E logger \in Loggers :
          Called_Setter("SetLogger", parent, logger,
                        appcontext_SetLogger(ctxs, parent, logger))

SetRepoLocatorCall ==
    /\ Len(ctxs) < MaxCtx
    /\ \E parent \in 0..Len(ctxs) : \E locator \in Locators :
          Called_Setter("SetRepoLocator", parent, locator,
                        appcontext_SetRepoLocator(ctxs, parent, locator))

SetInteractorCall ==
    /\ Len(ctxs) < MaxCtx
    /\ \E parent \in 0..Len(ctxs) : \E interactor \in Interactors :
          Called_Setter("SetInteractor", parent, interactor,
                        appcontext_SetInteractor(ctxs, parent, interactor))

NextContext ==
    \/ SetLoggerCall
    \/ SetRepoLocatorCall
    \/ SetInteractorCall

SpecContext == InitIdle /\ [][NextContext]_vars

\* --------------------------------------------- formatSQLWithArgs on its own
\* A string is the sequence of its pieces; "?" is the placeholder byte and
\* every other piece stands for text without a question mark.  An argument is
\* its dynamic type and its text.
MaxQueryLen == 3       \* pieces of the longest query
MaxArgs == 2           \* arguments of the longest argument list

QueryChars == {"?", "x"}

ArgValues ==
    {[t |-> "string", v |-> <<>>], [t |-> "string", v |-> <<"a">>],
     [t |-> "string", v |-> <<"?">>], [t |-> "int", v |-> <<"7">>],
     [t |-> "nil", v |-> <<>>], [t |-> "bool", v |-> <<"true">>]}

\* the type switch: how one argument is written
FormatArg(arg) ==
    CASE arg.t = "string" -> <<"'">> \o arg.v \o <<"'">>
      [] arg.t = "nil" -> <<"NULL">>
      [] arg.t = "int" -> arg.v
      [] arg.t = "bool" -> IF arg.v = <<"true">> THEN <<"TRUE">> ELSE <<"FALSE">>

\* for each argument in turn, the first "?" of the text built so far is
\* replaced by the argument as written
RECURSIVE formatSQLWithArgs(_, _)
formatSQLWithArgs(query, args) ==
    LET ReplaceFirst(text, value) ==
            IF \A i \in 1..Len(text) : text[i] # "?" THEN text
            ELSE LET i == CHOOSE i \in 1..Len(text) :
                             text[i] = "?" /\ \A j \in 1..(i - 1) : text[j] # "?"
                 IN SubSeq(text, 1, i - 1) \o value \o SubSeq(text, i + 1, Len(text))
    IN IF args = <<>> THEN query
       ELSE formatSQLWithArgs(ReplaceFirst(query, FormatArg(args[1])), Tail(args))

\* one call of formatSQLWithArgs, as LogSQL makes it for a statement
FormatSQLCall ==
    /\ calls = <<>>
    /\ \E n \in 0..MaxQueryLen : \E query \in [1..n -> QueryChars] :
       \E m \in 0..MaxArgs : \E args \in [1..m -> ArgValues] :
          calls' = << [op |-> "formatSQLWithArgs",
                       wrapped |-> [query |-> query, args |-> args],
                       got |-> [formattedQuery |-> formatSQLWithArgs(query, args)]] >>
    /\ UNCHANGED <<cfg, appLogger, store, cache, now, phase, req, nextMw, stack, reqCtx,
                   spans, logs, resp, result, rec, traceOp, warm, sharedWrites, ctxs,
                   procs>>

SpecFormatSQL == InitIdle /\ [][FormatSQLCall]_vars

\* ------------------------------------- use-case calls running concurrently
\* Each request is served by its own goroutine, so use-case calls of different
\* requests interleave at their repository calls: between two of them any
\* other call may read or write MySQL and Redis.  A call in flight is a record
\* of procs: the use case, the repository call it makes next (pc) and its
\* local variables.  The spans and log entries of the calls are not kept here.
MaxProcs == 3          \* use-case calls started, in flight or returned

Proc(op, pc, id, name, email) ==
    [op |-> op, pc |-> pc, id |-> id, name |-> name, email |-> email,
     user |-> <<>>, err |-> NoErr, source |-> ""]

\* a handler calls interactor.GetUser or interactor.CreateUser
StartCall ==
    /\ Len(procs) < MaxProcs
    /\ \/ \E id \in 1..(MaxUsers + 1) :
             procs' = Append(procs, Proc("GetUser", "RCache.Get", id, "", ""))
       \/ \E name \in Names : \E email \in Emails :
             procs' = Append(procs, Proc("CreateUser", "RUser.Create", 0, name, email))
    /\ UNCHANGED <<cfg, appLogger, store, cache, now, phase, req, nextMw, stack, reqCtx,
                   spans, logs, resp, calls, result, rec, traceOp, warm, sharedWrites,
                   ctxs>>

\* GetUser up to its return on a hit, or up to the call of RUser.FindByID
GetUserCacheGet ==
    \E p \in 1..Len(procs) : \E f \in FaultsOn({"cget"}) :
       LET me == "UserUseCase.GetUser"
           g == CacheRepositoryTracer_Get(cache, CacheKey(procs[p].id), f, me)
       IN /\ procs[p].op = "GetUser" /\ procs[p].pc = "RCache.Get"
          /\ procs' = [procs EXCEPT ![p] =
                IF IsCacheHit(g) /\ Unmarshal(g.value).ok
                THEN [@ EXCEPT !.pc = "returned", !.user = <<Unmarshal(g.value).user>>,
                               !.source = "cache"]
                ELSE [@ EXCEPT !.pc = "RUser.FindByID", !.source = "database"]]
          /\ UNCHANGED <<cfg, appLogger, store, cache, now, phase, req, nextMw, stack,
                         reqCtx, spans, logs, resp, calls, result, rec, traceOp, warm,
                         sharedWrites, ctxs>>

\* GetUser from RUser.FindByID to its return on an error, or up to RCache.Set
GetUserFindByID ==
    \E p \in 1..Len(procs) : \E f \in FaultsOn({"db"}) :
       LET me == "UserUseCase.GetUser"
           d == RUser_FindByID(store, procs[p].id, f, me)
       IN /\ procs[p].op = "GetUser" /\ procs[p].pc = "RUser.FindByID"
          /\ procs' = [procs EXCEPT ![p] =
                IF d.err # NoErr
                THEN [@ EXCEPT !.pc = "returned", !.err = Wrap("user not found", d.err)]
                ELSE [@ EXCEPT !.pc = "RCache.Set", !.user = d.user]]
          /\ UNCHANGED <<cfg, appLogger, store, cache, now, phase, req, nextMw, stack,
                         reqCtx, spans, logs, resp, calls, result, rec, traceOp, warm,
                         sharedWrites, ctxs>>

\* CreateUser from RUser.Create to its return on an error, or up to RCache.Set
CreateUserCreate ==
    \E p \in 1..Len(procs) : \E f \in FaultsOn({"db"}) : \E t \in now..MaxClock :
       LET me == "UserUseCase.CreateUser"
           c == RUser_Create(store, User(0, procs[p].name, procs[p].email, t), f, me)
       IN /\ procs[p].op = "CreateUser" /\ procs[p].pc = "RUser.Create"
          /\ Len(c.store) <= MaxUsers
          /\ store' = c.store
          /\ now' = t
          /\ procs' = [procs EXCEPT ![p] =
                IF c.err # NoErr
                THEN [@ EXCEPT !.pc = "returned",
                               !.err = Wrap("failed to create user", c.err)]
                ELSE [@ EXCEPT !.pc = "RCache.Set", !.user = <<c.user>>,
                               !.id = c.user.ID]]
          /\ UNCHANGED <<cfg, appLogger, cache, phase, req, nextMw, stack, reqCtx, spans,
                         logs, resp, calls, result, rec, traceOp, warm, sharedWrites,
                         ctxs>>

\* GetUser and CreateUser from RCache.Set to their return: the user, whether
\* or not the value was stored
UseCaseCacheSet ==
    \E p \in 1..Len(procs) : \E f \in FaultsOn({"cset"}) :
       LET s == CacheRepositoryTracer_Set(cache, CacheKey(procs[p].user[1].ID),
                                          Marshal(procs[p].user[1]), f,
                                          "UserUseCase." \o procs[p].op)
       IN /\ procs[p].pc = "RCache.Set"
          /\ cache' = s.cache
          /\ procs' = [procs EXCEPT ![p].pc = "returned"]
          /\ UNCHANGED <<cfg, appLogger, store, now, phase, req, nextMw, stack, reqCtx,
                         spans, logs, resp, calls, result, rec, traceOp, warm,
                         sharedWrites, ctxs>>

NextConcurrent ==
    \/ StartCall
    \/ GetUserCacheGet
    \/ GetUserFindByID
    \/ CreateUserCreate
    \/ UseCaseCacheSet
    \/ Expire

SpecConcurrent == InitIdle /\ [][NextConcurrent]_vars

\* ================================================================= claims
Caught == rec.caught # NoPanic
RecoveryWrites == {i \in 1..Len(resp) : resp[i].by = "EchoRecoveryMiddleware"}
RecoveryLogs == {i \in 1..Len(logs) : logs[i].layer = "middleware"}
Served == phase = "done" /\ req.route \in Routes

\* C1: a request whose inner chain panics gets exactly one response, written
\* by the recovery middleware with status 500; no other layer responds and no
\* panic leaves the chain.
C1_PanicAnsweredOnceWith500 ==
    /\ Caught => /\ Len(resp) = 1
                 /\ resp[1].by = "EchoRecoveryMiddleware"
                 /\ resp[1].status = StatusInternalServerError
    /\ Served => result.panic = NoPanic

C1_Witness ==
    /\ Served
    /\ rec.caught = DeliberatePanic
    /\ Len(resp) = 1

\* C2: a request that went through the recovery middleware ends Completed
\* (no panic; recovery wrote nothing, logged nothing and returned the inner
\* result unchanged) or Responded (panic caught, 500 written), and not both.
Completed ==
    /\ rec.state = "Completed"
    /\ ~Caught
    /\ RecoveryWrites = {}
    /\ RecoveryLogs = {}
    /\ result = [err |-> rec.inner, panic |-> NoPanic]

Responded ==
    /\ rec.state = "Responded"
    /\ Caught
    /\ \E i \in RecoveryWrites : resp[i].status = StatusInternalServerError

C2_ExactlyOneTerminalState ==
    Served => (Completed \/ Responded) /\ ~(Completed /\ Responded)

C2_Witness ==
    /\ Served
    /\ Completed
    /\ rec.inner # NoErr

\* C3: when recovery handles a panic it emits exactly one error entry, and
\* every trace id and span id on that entry is the one captured before next
\* was invoked.
IdsAreCaptured(entry) ==
    /\ HasKey(entry.attrs, "dd.trace_id")
    /\ HasKey(entry.attrs, "dd.span_id")
    /\ \A k \in 1..Len(entry.attrs) :
          /\ entry.attrs[k][1] = "dd.trace_id" => entry.attrs[k][2] = rec.traceID
          /\ entry.attrs[k][1] = "dd.span_id" => entry.attrs[k][2] = rec.spanID

C3_LogCarriesCapturedIds ==
    Caught => /\ Cardinality({i \in RecoveryLogs : logs[i].level = "error"}) = 1
              /\ \A i \in RecoveryLogs : IdsAreCaptured(logs[i])

\* C4: the recovery middleware returns without panicking and without an
\* error, whatever the panic value, with or without a logger in the context,
\* and also when the response cannot be written.
C4_RecoveryNeverPropagates ==
    Caught => result = NoResult /\ phase \in {"up", "done"}

C4_Witness ==
    /\ Served
    /\ Caught
    /\ ~cfg.logger
    /\ \E i \in RecoveryWrites : resp[i].written = "fail"

\* C5: after a recovered panic the server accepts the next request, and
\* everything of the server the outcome of a later request depends on (store,
\* cache, wiring, logger configuration) is as the panicking request found it.
PanicStep ==
    /\ phase \in {"down", "up", "panic"}
    /\ phase' = "panic" \/ rec'.caught # NoPanic

C5_ServerKeepsServing ==
    /\ [][PanicStep => UNCHANGED <<cfg, appLogger, store, cache>>]_vars
    /\ [](Served /\ Caught => ENABLED NewRequest)

C5_Witness ==
    /\ Served
    /\ Caught
    /\ cfg.ver = 1
    /\ cfg.logger

\* C6: the chain built by router.Setup, outermost first: tracing root, panic
\* recovery, logger injection, locator injection, CORS, route handler.
Entered == [i \in 1..Len(stack) |-> stack[i].mw]
Installed(mw) ==
    CASE mw = "logger" -> cfg.logger
      [] mw = "locator" -> cfg.locator
      [] OTHER -> TRUE

C6_RecoveryWrapsInjection ==
    (phase = "down" /\ nextMw = Len(Chain) + 1) =>
        Entered = SelectSeq(<<"tracing", "recovery", "logger", "locator", "cors">>, Installed)

\* C7: when a request ends, every span opened for it has been finished
\* exactly once, whether its call returned a value, an error, or panicked.
C7_SpansFinishedOnce ==
    phase = "done" => \A i \in 1..Len(spans) : spans[i].fin = 1

C7_Witness ==
    /\ phase = "done"
    /\ Caught
    /\ SpanOf(spans, "UserRepository.TestPanic") # 0
    /\ SpanOf(spans, "CacheRepositoryTracer.Get") = 0

\* C8: a tracing decorator returns exactly the value and the error the wrapped
\* repository returned, on the success path and on the failure path.
C8_DecoratorTransparent ==
    \A i \in 1..Len(calls) : calls[i].got = calls[i].wrapped

C8_Witness ==
    /\ \E i \in 1..Len(calls) :
          calls[i].op = "UserRepositoryTracer.FindByID" /\ calls[i].wrapped.err # NoErr
    /\ \E i \in 1..Len(calls) :
          calls[i].op = "CacheRepositoryTracer.Get" /\ calls[i].wrapped.err # NoErr

\* C9: when the wrapped call fails, the decorator's span carries error=true
\* and the error message, both set before the span is finished, and the
\* original error is returned.
ErrorTagged(call) ==
    LET sp == spans[SpanOf(spans, call.op)] IN
    /\ <<"error", "true">> \in sp.tags
    /\ <<"error.msg", call.wrapped.err>> \in sp.tags
    /\ sp.late = {}
    /\ call.got.err = call.wrapped.err

C9_EveryDecoratorTagsError ==
    \A i \in 1..Len(calls) : calls[i].wrapped.err # NoErr => ErrorTagged(calls[i])

\* C9 as amended: every decorator operation other than the cache Get does so;
\* the cache Get decorator treats a failed Get as a miss: cache.hit=false and
\* cache.success=true, no error tag, and the original error is returned.
MissTagged(call) ==
    LET sp == spans[SpanOf(spans, call.op)] IN
    /\ <<"cache.hit", "false">> \in sp.tags
    /\ <<"cache.success", "true">> \in sp.tags
    /\ \A t \in sp.tags : t[1] \notin {"error", "error.msg"}
    /\ sp.late = {}
    /\ call.got.err = call.wrapped.err

C9_DecoratorsTagErrorExceptCacheGet ==
    \A i \in 1..Len(calls) :
        calls[i].wrapped.err # NoErr =>
            IF calls[i].op = "CacheRepositoryTracer.Get"
            THEN MissTagged(calls[i])
            ELSE ErrorTagged(calls[i])

C9_Witness ==
    /\ \E i \in 1..Len(calls) :
          calls[i].op = "CacheRepositoryTracer.Set" /\ calls[i].wrapped.err # NoErr
    /\ \E i \in 1..Len(calls) :
          calls[i].op = "CacheRepositoryTracer.Get" /\ calls[i].wrapped.err # NoErr
    /\ \E i \in 1..Len(calls) :
          calls[i].op = "UserRepositoryTracer.FindByID" /\ calls[i].wrapped.err = NoErr

\* C10: GetUser reads the cache before the store, and on a non-empty cached
\* value that deserializes it returns that user without FindByID and without
\* Set.
CallOf(op) == CHOOSE i \in 1..Len(calls) : calls[i].op = op
Called(op) == \E i \in 1..Len(calls) : calls[i].op = op
FindByIDSpan ==
    IF cfg.tracedUser THEN SpanOf(spans, "UserRepositoryTracer.FindByID")
    ELSE SpanOf(spans, "UserRepository.FindByID")
CacheHit ==
    /\ Called("CacheRepositoryTracer.Get")
    /\ calls[CallOf("CacheRepositoryTracer.Get")].got.err = NoErr
    /\ calls[CallOf("CacheRepositoryTracer.Get")].got.value # EmptyString
    /\ Unmarshal(calls[CallOf("CacheRepositoryTracer.Get")].got.value).ok

C10_CacheHitSkipsStore ==
    SpanOf(spans, "UserUseCase.GetUser") # 0 =>
        /\ Called("CacheRepositoryTracer.Get")
        /\ FindByIDSpan # 0 => SpanOf(spans, "CacheRepositoryTracer.Get") < FindByIDSpan
        /\ CacheHit =>
              /\ FindByIDSpan = 0
              /\ ~Called("CacheRepositoryTracer.Set")
              /\ Len(resp) = 1
              /\ resp[1].status = StatusOK
              /\ ValueOf(resp[1].body, "data")
                    = calls[CallOf("CacheRepositoryTracer.Get")].got.value

C10_Witness ==
    /\ Served
    /\ SpanOf(spans, "UserUseCase.GetUser") # 0
    /\ CacheHit
    /\ HasRow(store, 1)

\* C11: after a successful GetUser(id) that missed the cache, and after a
\* successful CreateUser that produced id, the next GetUser(id) within the TTL
\* window is served from the cache with the same user fields and without a
\* store call.
GetUserRuns ==
    /\ req.route = "GET /api/users/:id"
    /\ SpanOf(spans, "UserUseCase.GetUser") = 0
    /\ SpanOf(spans', "UserUseCase.GetUser") # 0

ServedFromCacheAs(e) ==
    /\ TagOf(spans, "UserUseCase.GetUser", "data.source") = "cache"
    /\ FindByIDSpan = 0
    /\ Len(resp) = 1
    /\ resp[1].status = StatusOK
    /\ ValueOf(resp[1].body, "data") = e.data

CacheReadOK ==
    /\ Called("CacheRepositoryTracer.Get")
    /\ calls[CallOf("CacheRepositoryTracer.Get")].wrapped.err = NoErr

NotFoundErrors ==
    {Wrap("user not found", "user not found"),
     Wrap("user not found", Wrap("failed to query user", DbDown))}

GetUserReturnedNotFound ==
    /\ TagOf(spans, "UserUseCase.GetUser", "error") = "true"
    /\ TagOf(spans, "UserHandler.GetUser", "error.msg") \in NotFoundErrors
    /\ \A i \in 1..Len(resp) : ~HasKey(resp[i].body, "data")

C12_AbsentIdIsNotFoundAndNotCached ==
    [][GetUserRuns /\ ~HasRow(store, Atoi(req.id).n) =>
          /\ GetUserReturnedNotFound'
          /\ ~Called("CacheRepositoryTracer.Set")'
          /\ cache' = cache]_vars

C12_Witness ==
    /\ Served
    /\ SpanOf(spans, "UserUseCase.GetUser") # 0
    /\ req.id = "2"
    /\ ~HasRow(store, 2)
    /\ CacheKey(1) \in DOMAIN cache
    /\ TagOf(spans, "UserHandler.GetUser", "error.msg")
          = Wrap("user not found", "user not found")

\* C13: when the store operation succeeded and the CacheRepository.Set that
\* follows it fails, GetUser still returns the user read from the store and
\* CreateUser still returns the created user, both without error.
SetFailed ==
    \E i \in 1..Len(calls) :
        calls[i].op = "CacheRepositoryTracer.Set" /\ calls[i].wrapped.err # NoErr

C13_CacheWriteIsBestEffort ==
    SetFailed =>
        /\ Len(resp) = 1
        /\ HasKey(resp[1].body, "data")
        /\ IF req.route = "POST /api/users"
           THEN /\ resp[1].status = StatusCreated
                /\ ValueOf(resp[1].body, "data") = Marshal(store[Len(store)])
                /\ TagOf(spans, "UserHandler.CreateUser", "error") = ""
           ELSE /\ resp[1].status = StatusOK
                /\ ValueOf(resp[1].body, "data") = Marshal(RowOf(store, Atoi(req.id).n))
                /\ TagOf(spans, "UserHandler.GetUser", "error") = ""

C13_Witness ==
    /\ Served
    /\ SetFailed
    /\ req.route = "POST /api/users"
    /\ Len(store) = 2
    /\ CacheKey(2) \notin DOMAIN cache

\* C14: CreateUser calls CacheRepository.Set only after UserRepository.Create
\* has succeeded, with the key of the id the store assigned; when Create
\* fails CreateUser returns an error and no user and the cache is unchanged.
CreateUserRuns ==
    /\ req.route = "POST /api/users"
    /\ SpanOf(spans, "UserUseCase.CreateUser") = 0
    /\ SpanOf(spans', "UserUseCase.CreateUser") # 0

SetFollowsCreate ==
    /\ SpanOf(spans, "UserRepository.Create") # 0
    /\ SpanOf(spans, "UserRepository.Create") < SpanOf(spans, "CacheRepositoryTracer.Set")
    /\ TagOf(spans, "CacheRepositoryTracer.Set", "cache.key")
          = "user:" \o FormatUint(store[Len(store)].ID)

CreateUserReturnedError ==
    /\ TagOf(spans, "UserHandler.CreateUser", "error") = "true"
    /\ Len(resp) = 1
    /\ resp[1].status = StatusInternalServerError
    /\ ~HasKey(resp[1].body, "data")

C14_StoreBeforeCache ==
    [][CreateUserRuns =>
          /\ Called("CacheRepositoryTracer.Set")' =>
                /\ store' = Append(store, store'[Len(store')])
                /\ store'[Len(store')].ID = Len(store) + 1
                /\ SetFollowsCreate'
          /\ store' = store =>
                /\ CreateUserReturnedError'
                /\ ~Called("CacheRepositoryTracer.Set")'
                /\ cache' = cache]_vars

C14_Witness ==
    /\ Served
    /\ req.route = "POST /api/users"
    /\ Called("CacheRepositoryTracer.Set")
    /\ TagOf(spans, "CacheRepositoryTracer.Set", "cache.key") = "user:2"
    /\ "user:2" \in DOMAIN cache
    /\ cache["user:2"] = Marshal(store[2])

\* C15: a GET /api/users/{id} with a numeric id that is absent from the store
\* is answered 404 with a ProblemDetail whose type ends in /not-found and
\* whose notify flag is false.
AbsentLookup ==
    /\ req.route = "GET /api/users/:id"
    /\ SpanOf(spans, "UserUseCase.GetUser") # 0
    /\ Atoi(req.id).ok
    /\ ~HasRow(store, Atoi(req.id).n)

IsProblem(body, status, suffix, notify) ==
    /\ HasKey(body, "type")
    /\ \E base \in {"https://datadog-tour.example.com/errors"} :
          ValueOf(body, "type") = base \o suffix
    /\ HasKey(body, "status")
    /\ ValueOf(body, "status") = FormatUint(status)
    /\ HasKey(body, "notify")
    /\ ValueOf(body, "notify") = notify

C15_AbsentIdAnswered404 ==
    AbsentLookup =>
        /\ Len(resp) = 1
        /\ resp[1].status = 404
        /\ IsProblem(resp[1].body, 404, "/not-found", "false")

C15_Witness ==
    /\ Served
    /\ AbsentLookup
    /\ req.id = "2"
    /\ resp[1].written = "ok"
    /\ ValueOf(resp[1].body, "instance") = "/api/users/2"

\* C16: while a GET /api/users/{id} whose id is absent from the store is
\* served, no log entry carries error.notify=true and no span is tagged
\* error.notify=true, in the repository, the use case or the handler.
Alerts(attrs) ==
    \E k \in 1..Len(attrs) : attrs[k] = <<"error.notify", "true">>

C16_MissingEntityNeverAlerts ==
    AbsentLookup =>
        /\ \A i \in 1..Len(logs) : ~Alerts(logs[i].attrs)
        /\ \A i \in 1..Len(spans) : <<"error.notify", "true">> \notin spans[i].tags

\* C17: when CreateUser, GetAllUsers or GetUser fails because the user store
\* returned a failure other than absence, the response is an InternalError
\* ProblemDetail with status 500 and notify=true.
StoreFailed ==
    \E op \in {"UserRepository.Create", "UserRepository.FindByID", "UserRepository.FindAll"} :
        TagOf(spans, op, "error") = "true"

C17_BackendFailureAlwaysAlerts ==
    StoreFailed =>
        /\ Len(resp) = 1
        /\ resp[1].status = 500
        /\ IsProblem(resp[1].body, 500, "/internal", "true")

\* C18: a GET /api/users/{id} whose id is not a valid integer, served with a
\* repository locator installed, is answered 400 with a validation
\* ProblemDetail whose notify flag is false, and the use case is not invoked:
\* no cache call, no store call, cache and store unchanged.
GetUserHandlerRuns ==
    /\ req.route = "GET /api/users/:id"
    /\ SpanOf(spans, "UserHandler.GetUser") = 0
    /\ SpanOf(spans', "UserHandler.GetUser") # 0

NotAnInteger(s) == \A n \in 0..9 : FormatUint(n) # s

OnlyHandlerRan ==
    /\ \A i \in 1..Len(spans) :
          spans[i].owner \in {"EchoLoggerMiddleware", "echotrace.Middleware",
                              "EchoRecoveryMiddleware", "EchoCORSMiddleware",
                              "UserHandler.GetUser"}
    /\ calls = <<>>

C18_InvalidIdRejectedBeforeUseCase ==
    [][GetUserHandlerRuns /\ NotAnInteger(req.id) /\ reqCtx.locator =>
          /\ Len(resp') = 1
          /\ resp'[1].status = 400
          /\ IsProblem(resp'[1].body, 400, "/validation", "false")
          /\ OnlyHandlerRan'
          /\ store' = store
          /\ cache' = cache]_vars

C18_Witness ==
    /\ Served
    /\ req.route = "GET /api/users/:id"
    /\ req.id = "abc"
    /\ cfg.locator
    /\ Len(resp) = 1
    /\ resp[1].by = "UserHandler.GetUser"
    /\ CacheKey(1) \in DOMAIN cache

\* C19: FindAll returns the stored users ordered by creation time, most
\* recent first, and at most 100 of them: with n stored users the result has
\* min(n, 100) elements, all of them stored rows, and no row left out was
\* created after a row returned.
LastFindAll ==
    /\ calls # <<>>
    /\ calls[Len(calls)].op = "UserRepositoryTracer.FindAll"
    /\ calls[Len(calls)].wrapped.err = NoErr

Returned == calls[Len(calls)].wrapped.users

C20_FindAllIdempotent ==
    \A i \in 1..(Len(calls) - 1) :
        /\ calls[i].op = "UserRepositoryTracer.FindAll"
        /\ calls[i + 1].op = "UserRepositoryTracer.FindAll"
        /\ calls[i].wrapped.err = NoErr
        /\ calls[i + 1].wrapped.err = NoErr
        => calls[i + 1].wrapped.users = calls[i].wrapped.users

\* C21: the body of the response the recovery middleware writes after a panic
\* is a ProblemDetail: it carries type, title, status 500, detail and
\* instance, and its notify flag is true.
C21_RecoveryBodyIsProblemDetail ==
    \A i \in RecoveryWrites :
        /\ \A key \in {"type", "title", "status", "detail", "instance", "notify"} :
              HasKey(resp[i].body, key)
        /\ IsProblem(resp[i].body, 500, "/internal", "true")

\* C22: every response sent by the service, success or error, on every route,
\* carries the request's trace id and span id in its response headers.
TraceHeaders == {"X-Datadog-Trace-Id", "X-Datadog-Span-Id"}

C22_EveryResponseCarriesTraceHeaders ==
    \A i \in 1..Len(resp) :
        /\ \A name \in TraceHeaders : HasKey(resp[i].headers, name)
        /\ ValueOf(resp[i].headers, "X-Datadog-Trace-Id")
              = FormatUint(spans[SpanOf(spans, "echotrace.Middleware")].trace)

\* C23: the context carrier is copy-on-write.  After any sequence of
\* SetLogger, SetRepoLocator and SetInteractor calls, a setter returns a new
\* context in which its own key resolves to the value just set and every other
\* key resolves as in the parent, and every context that existed before the
\* call, the parent included, resolves every key as it did before the call.
LastSetter == calls'[Len(calls')]

OwnKey(op, r) ==
    CASE op = "SetLogger" -> r.logger
      [] op = "SetRepoLocator" -> r.locator
      [] op = "SetInteractor" -> r.interactor

OtherKeys(op, r) ==
    CASE op = "SetLogger" -> <<r.locator, r.interactor>>
      [] op = "SetRepoLocator" -> <<r.logger, r.interactor>>
      [] op = "SetInteractor" -> <<r.logger, r.locator>>

C23_ContextIsCopyOnWrite ==
    [][Len(calls') = Len(calls) + 1 =>
          /\ LastSetter.got.ctx \notin 0..Len(ctxs)
          /\ LastSetter.got.ctx \in 1..Len(ctxs')
          /\ OwnKey(LastSetter.op, Resolved(ctxs', LastSetter.got.ctx))
                = LastSetter.wrapped.val
          /\ OtherKeys(LastSetter.op, Resolved(ctxs', LastSetter.got.ctx))
                = OtherKeys(LastSetter.op, Resolved(ctxs, LastSetter.wrapped.ctx))
          /\ \A c \in 0..Len(ctxs) : Resolved(ctxs', c) = Resolved(ctxs, c)]_vars

C23_Witness ==
    /\ Len(ctxs) = 3
    /\ calls[1].op = "SetLogger" /\ calls[1].wrapped.val = "app"
    /\ calls[2].op = "SetRepoLocator" /\ calls[2].wrapped.ctx = 1
    /\ calls[3].op = "SetLogger" /\ calls[3].wrapped.ctx = 2
    /\ calls[3].wrapped.val = "other"
    /\ Resolved(ctxs, 3) = [logger |-> "other", locator |-> "locator", interactor |-> "nil"]
    /\ Resolved(ctxs, 2) = [logger |-> "app", locator |-> "locator", interactor |-> "nil"]

\* C24: no step of request handling, the panic-recovery path included, writes
\* to state shared across requests: the configuration of the process-wide
\* logger and the repository locator are only read after startup.
C24_SharedStateOnlyRead ==
    [][/\ sharedWrites' = sharedWrites
       /\ appLogger' = appLogger
       /\ cfg' = cfg]_vars

\* C25: the response a caller receives for a recovered panic does not depend
\* on the panic.  Whatever the panic value and wherever in the call stack it
\* was raised, the recovery middleware answers with one and the same status and
\* body, so any two such responses are identical, and no member of the body
\* holds the panic value or the stack trace.
PanicResponseBody == << <<"error", "Internal Server Error">> >>

C25_PanicResponseIndependentOfPanic ==
    Caught =>
        \A i \in RecoveryWrites :
            /\ resp[i].status = 500
            /\ resp[i].body = PanicResponseBody
            /\ \A k \in 1..Len(resp[i].body) :
                  /\ resp[i].body[k][2] # rec.caught.msg
                  /\ resp[i].body[k][2] # "panic recovered: " \o rec.caught.msg
                  /\ resp[i].body[k][2] # "debug.Stack"

\* a panic raised in the repository, three calls below the handler, recovered
\* and answered ...
C25_Witness ==
    /\ Served
    /\ rec.caught = DeliberatePanic
    /\ SpanOf(spans, "UserRepository.TestPanic") # 0
    /\ RecoveryWrites = {1}
    /\ resp[1].written = "ok"

\* ... and a panic raised in the handler itself, with another value
C25_WitnessHandlerDepth ==
    /\ Served
    /\ rec.caught = NilDereference
    /\ SpanOf(spans, "UserUseCase.GetUser") = 0
    /\ RecoveryWrites = {1}
    /\ resp[1].written = "ok"

\* C26: a problem reading the cache never fails GetUser.  When RCache.Get
\* returns an error (key absent or Redis unreachable), an empty string, or a
\* value that is not the JSON of a user, GetUser goes on to
\* UserRepository.FindByID and returns what the store determines: the stored
\* row when there is one and MySQL answers, otherwise FindByID's error.
NotAUser(v) == v = EmptyString \/ v.kind # "json"

CacheReadProblem ==
    /\ req.route = "GET /api/users/:id"
    /\ \E i \in 1..Len(calls) :
          /\ calls[i].op = "CacheRepositoryTracer.Get"
          /\ calls[i].got.err # NoErr \/ NotAUser(calls[i].got.value)

FindByIDFailed == TagOf(spans, "UserRepository.FindByID", "error") = "true"

C26_CacheReadProblemFallsBackToStore ==
    CacheReadProblem =>
        LET me == "UserUseCase.GetUser"
            id == Atoi(req.id).n
        IN /\ SpanOf(spans, "UserRepository.FindByID") # 0
           /\ IF HasRow(store, id) /\ ~FindByIDFailed
              THEN /\ TagOf(spans, me, "data.source") = "database"
                   /\ TagOf(spans, me, "user.name") = RowOf(store, id).Name
                   /\ TagOf(spans, me, "user.email") = RowOf(store, id).Email
                   /\ resp[1].status = 200
                   /\ ValueOf(resp[1].body, "data") = Marshal(RowOf(store, id))
              ELSE /\ TagOf(spans, me, "error") = "true"
                   /\ TagOf(spans, me, "error.msg")
                         = IF FindByIDFailed THEN Wrap("failed to query user", DbDown)
                           ELSE "user not found"
                   /\ resp[1].status = 404

C26_Witness ==
    /\ Served
    /\ CacheReadProblem
    /\ req.id = "1"
    /\ \E i \in 1..Len(calls) :
          calls[i].op = "CacheRepositoryTracer.Get" /\ calls[i].got.value = Garbage
    /\ resp[1].status = 200
    /\ ValueOf(resp[1].body, "data") = Marshal(Alice)

C26_WitnessRedisDown ==
    /\ Served
    /\ CacheReadProblem
    /\ req.id = "1"
    /\ \E i \in 1..Len(calls) :
          /\ calls[i].op = "CacheRepositoryTracer.Get"
          /\ calls[i].got.err = Wrap("failed to get cache", RedisDown)
    /\ FindByIDFailed
    /\ resp[1].status = 404

\* C27: formatSQLWithArgs substitutes positionally.  For a query with n
\* placeholders and at most n arguments of any supported type and content, the
\* result is the query with its k-th placeholder replaced by the k-th argument
\* as written, for every k up to the number of arguments; the placeholders
\* beyond the arguments stay "?", and with no arguments the query is returned
\* unchanged.
Placeholders(query) == {i \in 1..Len(query) : query[i] = "?"}

RECURSIVE Positional(_, _)
Positional(query, args) ==
    IF query = <<>> THEN <<>>
    ELSE IF query[1] = "?" /\ args # <<>>
    THEN FormatArg(args[1]) \o Positional(Tail(query), Tail(args))
    ELSE <<query[1]>> \o Positional(Tail(query), IF query[1] = "?" THEN <<>> ELSE args)

C27_FormatSQLSubstitutesPositionally ==
    \A i \in 1..Len(calls) :
        /\ calls[i].op = "formatSQLWithArgs"
        /\ Len(calls[i].wrapped.args) <= Cardinality(Placeholders(calls[i].wrapped.query))
        => calls[i].got.formattedQuery
              = Positional(calls[i].wrapped.query, calls[i].wrapped.args)

\* C28: within a request no span receives a tag after it was finished, on the
\* normal path and on the panic path alike; in particular the error tags the
\* recovery middleware sets after catching a panic go to a span that is not
\* yet finished.
C28_NoTagAfterFinish ==
    req.route \in Routes => \A i \in 1..Len(spans) : spans[i].late = {}

\* C29: when router.Setup is given no repository locator, every request to a
\* user endpoint (POST /api/users, GET /api/users, GET /api/users/{id}) panics
\* in the handler on the nil locator, is caught by the recovery middleware and
\* answered 500, the handler's span is finished all the same, and neither the
\* store nor the cache is touched.
UserRoutes == {"POST /api/users", "GET /api/users", "GET /api/users/:id"}

HandlerOf(route) ==
    CASE route = "POST /api/users" -> "UserHandler.CreateUser"
      [] route = "GET /api/users" -> "UserHandler.GetAllUsers"
      [] route = "GET /api/users/:id" -> "UserHandler.GetUser"

NoLocatorRequest == ~cfg.locator /\ req.route \in UserRoutes

C29_NoLocatorPanicsAndIsRecovered ==
    /\ [][NoLocatorRequest /\ phase \in {"down", "up", "panic"}
              => UNCHANGED <<store, cache>>]_vars
    /\ [](NoLocatorRequest /\ Served =>
              /\ rec.caught = NilDereference
              /\ Len(resp) = 1
              /\ resp[1].by = "EchoRecoveryMiddleware"
              /\ resp[1].status = 500
              /\ SpanOf(spans, HandlerOf(req.route)) # 0
              /\ spans[SpanOf(spans, HandlerOf(req.route))].fin = 1
              /\ calls = <<>>
              /\ \A i \in 1..Len(spans) :
                    spans[i].owner \in {"EchoLoggerMiddleware", "echotrace.Middleware",
                                        "EchoRecoveryMiddleware", "EchoCORSMiddleware",
                                        HandlerOf(req.route)})

C29_Witness ==
    /\ Served
    /\ NoLocatorRequest
    /\ req.route = "GET /api/users/:id"
    /\ req.id = "abc"
    /\ rec.caught = NilDereference
    /\ resp[1].status = 500
    /\ CacheKey(1) \in DOMAIN cache

\* C30: cache coherence under concurrency.  In every state reachable by any
\* interleaving of concurrent CreateUser and GetUser calls, with cache writes
\* and TTL expiry succeeding or failing arbitrarily, an entry the cache holds
\* under user:<id> deserializes to a user whose id is <id> and whose name and
\* email are those of the store's row <id>.
C30_CacheCoherentUnderConcurrency ==
    \A id \in 0..(MaxUsers + 1) :
        LET key == "user:" \o FormatUint(id) IN
        key \in DOMAIN cache =>
            /\ cache[key].kind = "json"
            /\ cache[key].id = id
            /\ HasRow(store, id)
            /\ cache[key].name = RowOf(store, id).Name
            /\ cache[key].email = RowOf(store, id).Email

\* CreateUser has inserted row 2 and not yet cached it; a GetUser(2) started
\* meanwhile missed the cache, read the row and cached it
C30_Witness ==
    /\ \E p \in 1..Len(procs) :
          /\ procs[p].op = "CreateUser"
          /\ procs[p].pc = "RCache.Set"
          /\ procs[p].id = 2
    /\ \E p \in 1..Len(procs) :
          /\ procs[p].op = "GetUser"
          /\ procs[p].pc = "returned"
          /\ procs[p].source = "database"
          /\ procs[p].user = <<store[2]>>
    /\ "user:2" \in DOMAIN cache
    /\ cache["user:2"] = Marshal(store[2])

====
